---- MODULE Spec2Model ----
(***************************************************************************)
(* Temporal builtins of the evalengine (src/unnamed/part_000): the         *)
(* AST-walking interpreter (eval), the static type inferencer (typeof) and *)
(* the bytecode compiler (compile) of every builtin, with the small stack  *)
(* machine that runs the emitted opcodes.                                  *)
(*                                                                         *)
(* A call node is built once (Init) and is immutable; the actions are the  *)
(* four operations the engine exposes on a node: Typeof, Compile, Eval     *)
(* and Exec (running the compiled program).                                *)
(***************************************************************************)
EXTENDS Integers, Sequences, FiniteSets, TLC

\* How far around each numeric boundary the argument values are drawn.
Around == 1

\* How many distinct declared scales / precisions the fractional inputs take.
MaxScale == 2

\* How far the injected clock advances during one statement, and how many
\* clock-reading calls the statement evaluates.
MaxClock == 2
MaxObs == 2

\* The process-wide clock provider: the instant SystemTime() returns now.
VARIABLE SystemTime

(***************************************************************************)
(* 64-bit numbers.  A number is a landmark plus a small offset; the        *)
(* landmarks are the constants the code compares against, in increasing    *)
(* order.  Offsets stay far below the distance between two landmarks, so   *)
(* the order is lexicographic.                                             *)
(***************************************************************************)
LMinInt64 == "a_minint64"
LNegMaxUnixtime == "a_negmaxunixtime"
LZero == "b_zero"
LMaxInt32 == "c_maxint32"
LMaxUnixtime == "d_maxunixtime"
LMaxInt64 == "e_maxint64"
LMaxUint64 == "f_maxuint64"

Rank(b) ==
  CASE b = LMinInt64 -> 0
    [] b = LNegMaxUnixtime -> 1
    [] b = LZero -> 2
    [] b = LMaxInt32 -> 3
    [] b = LMaxUnixtime -> 4
    [] b = LMaxInt64 -> 5
    [] b = LMaxUint64 -> 6

N(b, o) == [b |-> b, o |-> o]
Z(i) == N(LZero, i)

\* math.MaxInt64, math.MaxInt32 and the uint64 maximum
MaxInt64 == N(LMaxInt64, 0)
MaxInt32 == N(LMaxInt32, 0)
MaxUint64 == N(LMaxUint64, 0)

NumLt(x, y) == Rank(x.b) < Rank(y.b) \/ (x.b = y.b /\ x.o < y.o)
NumLe(x, y) == x = y \/ NumLt(x, y)
NumGt(x, y) == NumLt(y, x)
NumGe(x, y) == NumLe(y, x)

\* const maxUnixtime = 32536771200
maxUnixtime == N(LMaxUnixtime, 0)

\* -x, for the numbers the model negates (around 0 and around maxUnixtime)
NumNeg(x) ==
  CASE x.b = LZero -> N(LZero, -x.o)
    [] x.b = LMaxUnixtime -> N(LNegMaxUnixtime, -x.o)
    [] x.b = LNegMaxUnixtime -> N(LMaxUnixtime, -x.o)

\* Go's int64(u) of a uint64: values above MaxInt64 wrap around (u - 2^64).
Int64OfUint64(u) ==
  IF NumLe(u, MaxInt64) THEN u
  ELSE IF u.b = LMaxInt64 THEN N(LMinInt64, u.o - 1)
  ELSE N(LZero, u.o - 1)

\* math.Modf / QuoRem split a value into whole seconds and a fraction; the
\* fraction is carried in nanoseconds (ff * 1e9).
NanosPerSec == 1000000000
HalfSec == NanosPerSec \div 2

(***************************************************************************)
(* Runtime values (the eval tagged union).  cv is what the temporal        *)
(* conversions of the library (evalToDate, evalToTime, evalToDateTime,     *)
(* evalToTemporal) make of the value: "ok", "zero" (a zero date) or        *)
(* "fail" (nil).                                                           *)
(***************************************************************************)
Null == [k |-> "null"]
ErrOut == [k |-> "err"]
VInt(n) == [k |-> "int", n |-> n, cv |-> "fail"]
VUint(n) == [k |-> "uint", n |-> n, cv |-> "fail"]
\* a float64 in sign / whole part / fraction form
VFloat(neg, ip, fr) == [k |-> "float", neg |-> neg, ip |-> ip, fr |-> fr, cv |-> "fail"]
\* a decimal with its declared scale (evalDecimal.length)
VDec(neg, ip, fr, len) ==
  [k |-> "dec", neg |-> neg, ip |-> ip, fr |-> fr, len |-> len, cv |-> "fail"]
\* a temporal value: its type, its numeric form (toInt64 / toDecimal) and prec
VTemporal(t, n, fr, prec, cv) ==
  [k |-> "temporal", t |-> t, n |-> n, fr |-> fr, prec |-> prec, cv |-> cv]
\* a byte string: a hex or bit literal holding u, or a general string that
\* parses as the float (neg, ip, fr)
VLit(lit, u) == [k |-> "bytes", lit |-> lit, u |-> u, cv |-> "fail"]
VStr(neg, ip, fr, cv) ==
  [k |-> "bytes", lit |-> "none", neg |-> neg, ip |-> ip, fr |-> fr, cv |-> cv,
   s |-> "num"]
\* a general string read as a time zone, a format or an interval: s says what
\* the parser of that operand makes of it
VText(s) ==
  [k |-> "bytes", lit |-> "none", neg |-> FALSE, ip |-> Z(0), fr |-> 0, cv |-> "fail",
   s |-> s]

SetCv(v, c) == [v EXCEPT !.cv = c]

isHexOrBitLiteral(v) == v.k = "bytes" /\ v.lit \in {"hex", "bit"}

(***************************************************************************)
(* Static types and flags (sqltypes.Type, typeFlag).                       *)
(***************************************************************************)
flagNullable == "nullable"
flagHex == "hex"
flagBit == "bit"
flagAmbiguousType == "ambiguous"

\* ctype.nullable()
nullable(ct) == flagNullable \in ct.Flag
\* ctype.isHexOrBitLiteral()
ctIsHexOrBitLiteral(ct) == ct.Flag \cap {flagHex, flagBit} # {}
\* ctype.isTextual()
isTextual(ct) == ct.Type \in {"VarChar", "VarBinary", "Char", "Binary", "Text", "Blob"}

\* The static type an argument of this runtime value is declared with.
StaticType(v) ==
  CASE v.k = "int" -> "Int64"
    [] v.k = "uint" -> "Uint64"
    [] v.k = "float" -> "Float64"
    [] v.k = "dec" -> "Decimal"
    [] v.k = "temporal" -> v.t
    [] v.k = "bytes" -> IF v.lit = "none" THEN "VarChar" ELSE "VarBinary"

LitFlags(v) ==
  IF v.k = "bytes" /\ v.lit = "hex" THEN {flagHex}
  ELSE IF v.k = "bytes" /\ v.lit = "bit" THEN {flagBit}
  ELSE {}

(***************************************************************************)
(* Argument sub-expressions.  An argument has the static descriptor its    *)
(* own typeof and compile report (t, fl) and the outcome of evaluating it  *)
(* against the row (out): a value, null, or an error.  A null outcome      *)
(* needs the nullable flag.                                                *)
(***************************************************************************)
\* const is what the argument's own constant() reports.
Arg(t, fl, out) == [t |-> t, fl |-> fl, out |-> out, const |-> FALSE]
ConstArg(a) == [a EXCEPT !.const = TRUE]

\* A value as a non-nullable and as a nullable argument.
ArgsOf(v) ==
  { Arg(StaticType(v), LitFlags(v) \cup fl, v) : fl \in {{}, {flagNullable}} }

NullArgs(types) == { Arg(t, {flagNullable}, Null) : t \in types }
ErrArgs(types) == { Arg(t, fl, ErrOut) : t \in types, fl \in {{}, {flagNullable}} }

NumsAround(c) == { N(c.b, c.o + d) : d \in (-Around)..Around }

(***************************************************************************)
(* Call nodes.  fn names the builtin, args is the ordered argument list;   *)
(* onlyTime (builtinNow), unit and sub (builtinDateMath) are the           *)
(* per-function fields.                                                    *)
(***************************************************************************)
Call(fn, args) ==
  [fn |-> fn, args |-> args, utc |-> FALSE, onlyTime |-> FALSE, prec |-> 0,
   unit |-> "DAY", sub |-> FALSE]

\* datetime.IntervalType.HasTimeParts / HasDateParts
HasTimeParts(unit) == unit \in {"HOUR", "DAY_HOUR"}
HasDateParts(unit) == unit \in {"DAY", "DAY_HOUR"}

\* What an argument's own typeof / compile report.
argTypeof(a) == [Type |-> a.t, Flag |-> a.fl]
argCompile(a) == [Type |-> a.t, Col |-> "arg", Flag |-> a.fl]

collationBinary == "binary"
collationNumeric == "numeric"
\* defaultCoercionCollation(id)
defaultCoercionCollation == "default"

TF(t, f) == [Type |-> t, Flag |-> f]
CT(t, col, f) == [Type |-> t, Col |-> col, Flag |-> f]

(***************************************************************************)
(* typeof of every builtin.                                                *)
(***************************************************************************)
builtinNow_typeof(call) ==
  IF call.onlyTime THEN TF("Time", {}) ELSE TF("Datetime", {})
builtinSysdate_typeof(call) == TF("Datetime", {})
builtinCurdate_typeof(call) == TF("Date", {})
builtinUtcDate_typeof(call) == TF("Date", {})
builtinDateFormat_typeof(call) == TF("VarChar", {flagNullable})
builtinConvertTz_typeof(call) ==
  LET f == argTypeof(call.args[1]).Flag IN TF("Datetime", f \cup {flagNullable})
builtinDate_typeof(call) == TF("Date", {flagNullable})
builtinDayOfMonth_typeof(call) == TF("Int64", {flagNullable})
builtinDayOfWeek_typeof(call) == TF("Int64", {flagNullable})
builtinDayOfYear_typeof(call) == TF("Int64", {flagNullable})
builtinFromUnixtime_typeof(call) ==
  LET f == argTypeof(call.args[1]).Flag IN
  IF Len(call.args) = 1 THEN TF("Datetime", f \cup {flagNullable})
  ELSE TF("VarChar", f \cup {flagNullable})
builtinHour_typeof(call) == TF("Int64", {flagNullable})
builtinMakedate_typeof(call) ==
  LET f1 == argTypeof(call.args[1]).Flag
      f2 == argTypeof(call.args[2]).Flag
  IN TF("Date", f1 \cup f2 \cup {flagNullable})
builtinMaketime_typeof(call) ==
  LET f1 == argTypeof(call.args[1]).Flag
      f2 == argTypeof(call.args[2]).Flag
      f3 == argTypeof(call.args[3]).Flag
  IN TF("Time", f1 \cup f2 \cup f3 \cup {flagNullable})
builtinMicrosecond_typeof(call) == TF("Int64", {flagNullable})
builtinMinute_typeof(call) == TF("Int64", {flagNullable})
builtinMonth_typeof(call) == TF("Int64", {flagNullable})
builtinMonthName_typeof(call) == TF("VarChar", {flagNullable})
builtinQuarter_typeof(call) == TF("Int64", {flagNullable})
builtinSecond_typeof(call) == TF("Int64", {flagNullable})
builtinTime_typeof(call) == TF("Time", {flagNullable})
builtinUnixTimestamp_typeof(call) ==
  IF Len(call.args) = 0 THEN TF("Int64", {})
  ELSE TF("Int64", argTypeof(call.args[1]).Flag \cup {flagAmbiguousType})
builtinWeek_typeof(call) == TF("Int64", {flagNullable})
builtinWeekDay_typeof(call) == TF("Int64", {flagNullable})
builtinWeekOfYear_typeof(call) == TF("Int64", {flagNullable})
builtinYear_typeof(call) == TF("Int64", {flagNullable})
builtinYearWeek_typeof(call) == TF("Int64", {flagNullable})
builtinDateMath_typeof_noPromotion(call) ==
  LET a == argTypeof(call.args[1])
      tt == a.Type
      f == a.Flag
  IN CASE tt \in {"Date", "Time"} -> TF(tt, f \cup {flagNullable})
       [] tt \in {"Datetime", "Timestamp"} -> TF("Datetime", f \cup {flagNullable})
       [] OTHER -> TF("Char", f \cup {flagNullable})

builtinDateMath_typeof(call) ==
  LET a == argTypeof(call.args[1])
      tt == a.Type
      f == a.Flag
  IN CASE tt = "Date" /\ ~HasTimeParts(call.unit) -> TF("Date", f \cup {flagNullable})
       [] tt = "Time" /\ ~HasDateParts(call.unit) -> TF("Time", f \cup {flagNullable})
       [] \/ tt = "Datetime" \/ tt = "Timestamp"
          \/ (tt = "Date" /\ HasTimeParts(call.unit))
          \/ (tt = "Time" /\ HasDateParts(call.unit)) -> TF("Datetime", f \cup {flagNullable})
       [] OTHER -> TF("Char", f \cup {flagNullable})

typeof(call) ==
  CASE call.fn = "NOW" -> builtinNow_typeof(call)
    [] call.fn = "SYSDATE" -> builtinSysdate_typeof(call)
    [] call.fn = "CURDATE" -> builtinCurdate_typeof(call)
    [] call.fn = "UTC_DATE" -> builtinUtcDate_typeof(call)
    [] call.fn = "DATE_FORMAT" -> builtinDateFormat_typeof(call)
    [] call.fn = "CONVERT_TZ" -> builtinConvertTz_typeof(call)
    [] call.fn = "DATE" -> builtinDate_typeof(call)
    [] call.fn = "DAYOFMONTH" -> builtinDayOfMonth_typeof(call)
    [] call.fn = "DAYOFWEEK" -> builtinDayOfWeek_typeof(call)
    [] call.fn = "DAYOFYEAR" -> builtinDayOfYear_typeof(call)
    [] call.fn = "FROM_UNIXTIME" -> builtinFromUnixtime_typeof(call)
    [] call.fn = "HOUR" -> builtinHour_typeof(call)
    [] call.fn = "MAKEDATE" -> builtinMakedate_typeof(call)
    [] call.fn = "MAKETIME" -> builtinMaketime_typeof(call)
    [] call.fn = "MICROSECOND" -> builtinMicrosecond_typeof(call)
    [] call.fn = "MINUTE" -> builtinMinute_typeof(call)
    [] call.fn = "MONTH" -> builtinMonth_typeof(call)
    [] call.fn = "MONTHNAME" -> builtinMonthName_typeof(call)
    [] call.fn = "QUARTER" -> builtinQuarter_typeof(call)
    [] call.fn = "SECOND" -> builtinSecond_typeof(call)
    [] call.fn = "TIME" -> builtinTime_typeof(call)
    [] call.fn = "UNIX_TIMESTAMP" -> builtinUnixTimestamp_typeof(call)
    [] call.fn = "WEEK" -> builtinWeek_typeof(call)
    [] call.fn = "WEEKDAY" -> builtinWeekDay_typeof(call)
    [] call.fn = "WEEKOFYEAR" -> builtinWeekOfYear_typeof(call)
    [] call.fn = "YEAR" -> builtinYear_typeof(call)
    [] call.fn = "YEARWEEK" -> builtinYearWeek_typeof(call)
    [] call.fn = "DATE_ADD" -> builtinDateMath_typeof(call)

(***************************************************************************)
(* The assembler.  A program is a sequence of opcodes; "arg" stands for    *)
(* the compiled sub-program of argument i, which leaves the argument's     *)
(* value on the stack.  A null check names its jump; jumpDestination marks *)
(* the position the named jumps resolve to.                                *)
(***************************************************************************)
ArgOp(i) == <<[op |-> "arg", i |-> i]>>
Op(name) == <<[op |-> name]>>
OpAt(name, off) == <<[op |-> name, off |-> off]>>

\* compiler.compileNullCheck1 / 1r / 3: emitted only for a nullable operand
compileNullCheck1(ct, j) ==
  IF nullable(ct) THEN <<[op |-> "NullCheck1", j |-> j]>> ELSE <<>>
compileNullCheck1r(ct, j) ==
  IF nullable(ct) THEN <<[op |-> "NullCheck1r", j |-> j]>> ELSE <<>>
compileNullCheck3(ct1, ct2, ct3, j) ==
  IF nullable(ct1) \/ nullable(ct2) \/ nullable(ct3)
  THEN <<[op |-> "NullCheck3", j |-> j]>> ELSE <<>>
jumpDestination(js) == <<[op |-> "dest", js |-> js]>>

Compiled(prog, ct) == [prog |-> prog, ct |-> ct]

(***************************************************************************)
(* compile of every builtin.                                               *)
(***************************************************************************)
builtinNow_compile(call) ==
  LET t == IF call.onlyTime THEN "Time" ELSE "Datetime" IN
  Compiled(Op("Fn_Now"), CT(t, collationBinary, {}))
builtinSysdate_compile(call) ==
  Compiled(Op("Fn_Sysdate"), CT("Datetime", collationBinary, {}))
builtinCurdate_compile(call) ==
  Compiled(Op("Fn_Curdate"), CT("Date", collationBinary, {}))
builtinUtcDate_compile(call) ==
  Compiled(Op("Fn_UtcDate"), CT("Date", collationBinary, {}))

builtinDateFormat_compile(call) ==
  LET arg == argCompile(call.args[1])
      format == argCompile(call.args[2])
      col == defaultCoercionCollation
  IN Compiled(
       ArgOp(1) \o compileNullCheck1(arg, "skip1")
       \o (IF arg.Type \in {"Datetime", "Date"} THEN <<>> ELSE OpAt("Convert_xDT_nz", 1))
       \o ArgOp(2) \o compileNullCheck1r(format, "skip2")
       \o (IF format.Type \in {"VarChar", "VarBinary"} THEN <<>> ELSE OpAt("Convert_xb", 1))
       \o Op("Fn_DATE_FORMAT") \o jumpDestination({"skip1", "skip2"}),
       CT("VarChar", col, arg.Flag \cup {flagNullable}))

builtinConvertTz_compile(call) ==
  LET n == argCompile(call.args[1])
      from == argCompile(call.args[2])
      to == argCompile(call.args[3])
  IN Compiled(
       ArgOp(1) \o ArgOp(2) \o ArgOp(3) \o compileNullCheck3(n, from, to, "skip")
       \o (IF isTextual(from) THEN <<>> ELSE OpAt("Convert_xb", 2))
       \o (IF isTextual(to) THEN <<>> ELSE OpAt("Convert_xb", 1))
       \o (IF n.Type \in {"Datetime", "Date"} THEN <<>> ELSE OpAt("Convert_xDT_nz", 3))
       \o Op("Fn_CONVERT_TZ") \o jumpDestination({"skip"}),
       CT("Datetime", collationBinary, n.Flag \cup {flagNullable}))

\* The shape the one-argument compile methods share: the argument, its null
\* check, a conversion unless the static type is exempt, the function opcode.
compileUnary(call, exempt, conv, fn, t, col) ==
  LET arg == argCompile(call.args[1]) IN
  Compiled(
    ArgOp(1) \o compileNullCheck1(arg, "skip")
    \o (IF arg.Type \in exempt THEN <<>> ELSE OpAt(conv, 1))
    \o fn \o jumpDestination({"skip"}),
    CT(t, col, arg.Flag \cup {flagNullable}))

builtinDate_compile(call) ==
  compileUnary(call, {"Date"}, "Convert_xD", <<>>, "Date", collationBinary)
builtinDayOfMonth_compile(call) ==
  compileUnary(call, {"Date", "Datetime"}, "Convert_xD", Op("Fn_DAYOFMONTH"),
               "Int64", collationNumeric)
builtinDayOfWeek_compile(call) ==
  compileUnary(call, {"Date", "Datetime"}, "Convert_xD_nz", Op("Fn_DAYOFWEEK"),
               "Int64", collationNumeric)
builtinDayOfYear_compile(call) ==
  compileUnary(call, {"Date", "Datetime"}, "Convert_xD_nz", Op("Fn_DAYOFYEAR"),
               "Int64", collationNumeric)
builtinHour_compile(call) ==
  compileUnary(call, {"Date", "Datetime", "Time"}, "Convert_xT", Op("Fn_HOUR"),
               "Int64", collationNumeric)
builtinMicrosecond_compile(call) ==
  compileUnary(call, {"Date", "Datetime", "Time"}, "Convert_xT", Op("Fn_MICROSECOND"),
               "Int64", collationNumeric)
builtinMinute_compile(call) ==
  compileUnary(call, {"Date", "Datetime", "Time"}, "Convert_xT", Op("Fn_MINUTE"),
               "Int64", collationNumeric)
builtinMonth_compile(call) ==
  compileUnary(call, {"Date", "Datetime"}, "Convert_xD", Op("Fn_MONTH"),
               "Int64", collationNumeric)
builtinMonthName_compile(call) ==
  compileUnary(call, {"Date", "Datetime"}, "Convert_xD", Op("Fn_MONTHNAME"),
               "VarChar", defaultCoercionCollation)
builtinQuarter_compile(call) ==
  compileUnary(call, {"Date", "Datetime"}, "Convert_xD", Op("Fn_QUARTER"),
               "Int64", collationNumeric)
builtinSecond_compile(call) ==
  compileUnary(call, {"Date", "Datetime", "Time"}, "Convert_xT", Op("Fn_SECOND"),
               "Int64", collationNumeric)
builtinTime_compile(call) ==
  compileUnary(call, {"Time"}, "Convert_xT", <<>>, "Time", collationBinary)
builtinWeekDay_compile(call) ==
  compileUnary(call, {"Date", "Datetime"}, "Convert_xD_nz", Op("Fn_WEEKDAY"),
               "Int64", collationNumeric)
builtinWeekOfYear_compile(call) ==
  compileUnary(call, {"Date", "Datetime"}, "Convert_xD_nz", Op("Fn_WEEKOFYEAR"),
               "Int64", collationNumeric)
builtinYear_compile(call) ==
  compileUnary(call, {"Date", "Datetime"}, "Convert_xD", Op("Fn_YEAR"),
               "Int64", collationNumeric)

\* The opcodes FROM_UNIXTIME selects from the static type of its argument.
fromUnixtimeOps(arg) ==
  CASE arg.Type = "Int64" -> Op("Fn_FROM_UNIXTIME_i")
    [] arg.Type = "Uint64" -> Op("Fn_FROM_UNIXTIME_u")
    [] arg.Type = "Float64" -> Op("Fn_FROM_UNIXTIME_f")
    [] arg.Type = "Decimal" -> Op("Fn_FROM_UNIXTIME_d")
    [] arg.Type \in {"Datetime", "Date", "Time"} ->
         OpAt("Convert_Ti", 1) \o Op("Fn_FROM_UNIXTIME_i")
    [] arg.Type \in {"VarChar", "VarBinary"} ->
         IF ctIsHexOrBitLiteral(arg)
         THEN OpAt("Convert_xu", 1) \o Op("Fn_FROM_UNIXTIME_u")
         ELSE OpAt("Convert_xf", 1) \o Op("Fn_FROM_UNIXTIME_f")
    [] OTHER -> OpAt("Convert_xf", 1) \o Op("Fn_FROM_UNIXTIME_f")

builtinFromUnixtime_compile(call) ==
  LET arg == argCompile(call.args[1])
      head == ArgOp(1) \o compileNullCheck1(arg, "skip1") \o fromUnixtimeOps(arg)
  IN IF Len(call.args) = 1
     THEN Compiled(head \o jumpDestination({"skip1"}),
                   CT("Datetime", collationBinary, arg.Flag \cup {flagNullable}))
     ELSE LET format == argCompile(call.args[2]) IN
          Compiled(
            head \o ArgOp(2) \o compileNullCheck1r(format, "skip2")
            \o (IF format.Type \in {"VarChar", "VarBinary"} THEN <<>>
                ELSE OpAt("Convert_xb", 1))
            \o Op("Fn_DATE_FORMAT") \o jumpDestination({"skip1", "skip2"}),
            CT("VarChar", defaultCoercionCollation, arg.Flag \cup {flagNullable}))

\* MAKEDATE compiles its arguments in reverse order: the year day first.
builtinMakedate_compile(call) ==
  LET yearDay == argCompile(call.args[2])
      year == argCompile(call.args[1])
  IN Compiled(
       ArgOp(2) \o compileNullCheck1(yearDay, "skip1")
       \o ArgOp(1) \o compileNullCheck1r(year, "skip2")
       \o (IF yearDay.Type = "Int64" THEN <<>> ELSE OpAt("Convert_xi", 2))
       \o (IF year.Type = "Int64" THEN <<>> ELSE OpAt("Convert_xi", 1))
       \o Op("Fn_MAKEDATE") \o jumpDestination({"skip1", "skip2"}),
       CT("Date", collationBinary, year.Flag \cup yearDay.Flag \cup {flagNullable}))

maketimeHourOps(hour) ==
  CASE hour.Type = "Int64" -> <<>>
    [] hour.Type = "Uint64" -> OpAt("Clamp_u", 3) \o OpAt("Convert_xi", 3)
    [] hour.Type \in {"VarChar", "VarBinary"} ->
         IF ctIsHexOrBitLiteral(hour)
         THEN OpAt("Convert_xu", 3) \o OpAt("Clamp_u", 3) \o OpAt("Convert_xi", 3)
         ELSE OpAt("Convert_xi", 3)
    [] OTHER -> OpAt("Convert_xi", 3)

maketimeSecOps(sec) ==
  CASE sec.Type = "Int64" -> Op("Fn_MAKETIME_i")
    [] sec.Type = "Uint64" -> OpAt("Convert_ui", 1) \o Op("Fn_MAKETIME_i")
    [] sec.Type = "Decimal" -> Op("Fn_MAKETIME_d")
    [] sec.Type = "Float64" -> Op("Fn_MAKETIME_f")
    [] sec.Type \in {"VarChar", "VarBinary"} ->
         IF ctIsHexOrBitLiteral(sec)
         THEN OpAt("Convert_xi", 1) \o Op("Fn_MAKETIME_i")
         ELSE OpAt("Convert_xf", 1) \o Op("Fn_MAKETIME_f")
    [] OTHER -> OpAt("Convert_xf", 1) \o Op("Fn_MAKETIME_f")

builtinMaketime_compile(call) ==
  LET hour == argCompile(call.args[1])
      min == argCompile(call.args[2])
      sec == argCompile(call.args[3])
  IN Compiled(
       ArgOp(1) \o compileNullCheck1(hour, "skip1")
       \o ArgOp(2) \o compileNullCheck1r(min, "skip2")
       \o ArgOp(3) \o compileNullCheck3(hour, min, sec, "skip3")
       \o maketimeHourOps(hour)
       \o (IF min.Type = "Int64" THEN <<>> ELSE OpAt("Convert_xi", 2))
       \o maketimeSecOps(sec)
       \o jumpDestination({"skip1", "skip2", "skip3"}),
       CT("Time", collationBinary,
          hour.Flag \cup min.Flag \cup sec.Flag \cup {flagNullable}))

builtinUnixTimestamp_compile(call) ==
  IF Len(call.args) = 0
  THEN Compiled(Op("Fn_UNIX_TIMESTAMP0"), CT("Int64", collationNumeric, {}))
  ELSE LET arg == argCompile(call.args[1]) IN
       Compiled(
         ArgOp(1) \o compileNullCheck1(arg, "skip")
         \o Op("Fn_UNIX_TIMESTAMP1") \o jumpDestination({"skip"}),
         CT("Int64", collationBinary, arg.Flag \cup {flagAmbiguousType}))

\* WEEK and YEARWEEK: the mode operand is optional.
compileWeek(call, fn0, fn) ==
  LET arg == argCompile(call.args[1])
      head == ArgOp(1) \o compileNullCheck1(arg, "skip1")
              \o (IF arg.Type \in {"Date", "Datetime"} THEN <<>>
                  ELSE OpAt("Convert_xD_nz", 1))
      ct == CT("Int64", collationNumeric, arg.Flag \cup {flagNullable})
  IN IF Len(call.args) = 1
     THEN Compiled(head \o Op(fn0) \o jumpDestination({"skip1"}), ct)
     ELSE LET mode == argCompile(call.args[2]) IN
          Compiled(
            head \o ArgOp(2) \o compileNullCheck1r(mode, "skip2")
            \o OpAt("Convert_xi", 1) \o Op(fn)
            \o jumpDestination({"skip1", "skip2"}), ct)

builtinWeek_compile(call) == compileWeek(call, "Fn_WEEK0", "Fn_WEEK")
builtinYearWeek_compile(call) == compileWeek(call, "Fn_YEARWEEK0", "Fn_YEARWEEK")

\* The add/subtract-interval call: no null check is emitted.
builtinDateMath_compile(call) ==
  LET date == argCompile(call.args[1])
      flag == date.Flag \cup {flagNullable}
      args == ArgOp(1) \o ArgOp(2)
  IN CASE date.Type = "Date" /\ ~HasTimeParts(call.unit) ->
            Compiled(args \o Op("Fn_DATEADD_D"), CT("Date", collationBinary, flag))
       [] date.Type = "Time" /\ ~HasDateParts(call.unit) ->
            Compiled(args \o Op("Fn_DATEADD_D"), CT("Time", collationBinary, flag))
       [] \/ date.Type = "Datetime" \/ date.Type = "Timestamp"
          \/ (date.Type = "Date" /\ HasTimeParts(call.unit))
          \/ (date.Type = "Time" /\ HasDateParts(call.unit)) ->
            Compiled(args \o Op("Fn_DATEADD_D"), CT("Datetime", collationBinary, flag))
       [] OTHER ->
            Compiled(args \o Op("Fn_DATEADD_s"),
                     CT("VarChar", defaultCoercionCollation, flag))

compile(call) ==
  CASE call.fn = "NOW" -> builtinNow_compile(call)
    [] call.fn = "SYSDATE" -> builtinSysdate_compile(call)
    [] call.fn = "CURDATE" -> builtinCurdate_compile(call)
    [] call.fn = "UTC_DATE" -> builtinUtcDate_compile(call)
    [] call.fn = "DATE_FORMAT" -> builtinDateFormat_compile(call)
    [] call.fn = "CONVERT_TZ" -> builtinConvertTz_compile(call)
    [] call.fn = "DATE" -> builtinDate_compile(call)
    [] call.fn = "DAYOFMONTH" -> builtinDayOfMonth_compile(call)
    [] call.fn = "DAYOFWEEK" -> builtinDayOfWeek_compile(call)
    [] call.fn = "DAYOFYEAR" -> builtinDayOfYear_compile(call)
    [] call.fn = "FROM_UNIXTIME" -> builtinFromUnixtime_compile(call)
    [] call.fn = "HOUR" -> builtinHour_compile(call)
    [] call.fn = "MAKEDATE" -> builtinMakedate_compile(call)
    [] call.fn = "MAKETIME" -> builtinMaketime_compile(call)
    [] call.fn = "MICROSECOND" -> builtinMicrosecond_compile(call)
    [] call.fn = "MINUTE" -> builtinMinute_compile(call)
    [] call.fn = "MONTH" -> builtinMonth_compile(call)
    [] call.fn = "MONTHNAME" -> builtinMonthName_compile(call)
    [] call.fn = "QUARTER" -> builtinQuarter_compile(call)
    [] call.fn = "SECOND" -> builtinSecond_compile(call)
    [] call.fn = "TIME" -> builtinTime_compile(call)
    [] call.fn = "UNIX_TIMESTAMP" -> builtinUnixTimestamp_compile(call)
    [] call.fn = "WEEK" -> builtinWeek_compile(call)
    [] call.fn = "WEEKDAY" -> builtinWeekDay_compile(call)
    [] call.fn = "WEEKOFYEAR" -> builtinWeekOfYear_compile(call)
    [] call.fn = "YEAR" -> builtinYear_compile(call)
    [] call.fn = "YEARWEEK" -> builtinYearWeek_compile(call)
    [] call.fn = "DATE_ADD" -> builtinDateMath_compile(call)

(***************************************************************************)
(* The conversion library the interpreter calls.                           *)
(***************************************************************************)
\* evalToDate / evalToTime / evalToDateTime / evalToTemporal: nil when the
\* value does not convert; the result remembers what it was converted from.
evalToTemporalAs(t, v) ==
  IF v.cv = "fail" THEN Null
  ELSE [k |-> "temporal", t |-> t, zero |-> (v.cv = "zero"), of |-> v]
evalToDate(v) == evalToTemporalAs("Date", v)
evalToTime(v) == evalToTemporalAs("Time", v)
evalToDateTime(v) == evalToTemporalAs("Datetime", v)
isZero(d) == d.zero

\* evalToInt64(e).i
evalToInt64(v) ==
  CASE v.k = "int" -> v.n
    [] v.k = "uint" -> Int64OfUint64(v.n)
    [] v.k = "bytes" /\ v.lit # "none" -> Int64OfUint64(v.u)
    [] v.k \in {"float", "dec", "bytes"} -> IF v.neg THEN NumNeg(v.ip) ELSE v.ip
    [] v.k = "temporal" -> v.n

\* evalToNumeric(e, false)
evalToNumeric(v) ==
  CASE v.k \in {"int", "uint", "float", "dec"} -> v
    [] v.k = "bytes" /\ v.lit # "none" -> VUint(v.u)
    [] v.k = "bytes" -> VFloat(v.neg, v.ip, v.fr)
    [] v.k = "temporal" -> IF v.prec = 0 THEN VInt(v.n) ELSE VDec(FALSE, v.n, v.fr, v.prec)

\* datetime.ParseTimeZone, datetime.Format and the interval parsers fail on
\* the strings that are not of their grammar.
ParseTimeZoneOk(v) == v.k = "bytes" /\ v.lit = "none" /\ v.s = "zone"
FormatFails(v) == v.k = "bytes" /\ v.lit = "none" /\ v.s = "badfmt"
evalToIntervalNil(v) == v.k = "bytes" /\ v.lit = "none" /\ v.s = "baditv"

(***************************************************************************)
(* The calendar of the time and datetime packages.                         *)
(***************************************************************************)
IsLeap(y) == (y % 4 = 0 /\ y % 100 # 0) \/ y % 400 = 0
DaysInYear(y) == IF IsLeap(y) THEN 366 ELSE 365
DaysInMonth(y, m) ==
  CASE m = 2 -> IF IsLeap(y) THEN 29 ELSE 28
    [] m \in {4, 6, 9, 11} -> 30
    [] OTHER -> 31

\* the civil date a yyyymmdd number denotes
DateOfNumber(n) == [y |-> n \div 10000, m |-> (n \div 100) % 100, d |-> n % 100]

\* The strings and numbers that convert to a date are readings of this one.
SomeDate == 20200101

\* the civil date of a converted temporal value
CivilDate(d) ==
  IF d.of.k = "temporal" /\ d.of.t \in {"Date", "Datetime"}
  THEN DateOfNumber(d.of.n.o)
  ELSE DateOfNumber(SomeDate)

\* time.Weekday: Sunday is 0
Weekday(c) ==
  LET t == <<0, 3, 2, 5, 0, 3, 5, 1, 4, 6, 2, 4>>
      y == IF c.m < 3 THEN c.y - 1 ELSE c.y
  IN (y + y \div 4 - y \div 100 + y \div 400 + t[c.m] + c.d) % 7

RECURSIVE DaysBeforeMonth(_, _)
DaysBeforeMonth(y, m) ==
  IF m = 1 THEN 0 ELSE DaysBeforeMonth(y, m - 1) + DaysInMonth(y, m - 1)
YearDay(c) == DaysBeforeMonth(c.y, c.m) + c.d

\* the number of ISO weeks of a year: 53 when January 1 is a Thursday, or a
\* Wednesday of a leap year
WeeksInYear(y) ==
  LET w == Weekday([y |-> y, m |-> 1, d |-> 1]) IN
  IF w = 4 \/ (w = 3 /\ IsLeap(y)) THEN 53 ELSE 52

\* Date.ISOWeek: the week of the year that holds the Thursday of c's week
ISOWeek(c) ==
  LET wd == IF Weekday(c) = 0 THEN 7 ELSE Weekday(c)
      w == (YearDay(c) - wd + 10) \div 7
  IN IF w < 1 THEN WeeksInYear(c.y - 1)
     ELSE IF w > WeeksInYear(c.y) THEN 1
     ELSE w

newEvalInt64(i) == VInt(Z(i))

(***************************************************************************)
(* The interpreter.  A result is the value (Null for nil), the error       *)
(* ("nil" for none, "argN" for the error argument N raised) and the order  *)
(* in which the arguments were evaluated.                                  *)
(***************************************************************************)
R(v, e, ord) == [v |-> v, err |-> e, ord |-> ord]
ArgErr(i) == CASE i = 1 -> "arg1" [] i = 2 -> "arg2" [] i = 3 -> "arg3"
IsErr(out) == out.k = "err"

\* a number read off a converted temporal value (day, month, hour, ...)
Field(f, d) == [k |-> "field", f |-> f, of |-> d]

\* The shape the one-argument eval methods share: arg1, the null check, the
\* conversion, (for some) the zero-date check, the extraction.
evalUnary_hardError(call, t, checkZero, f) ==
  LET date == call.args[1].out IN
  IF IsErr(date) THEN R(Null, ArgErr(1), <<1>>)
  ELSE IF date = Null THEN R(Null, "nil", <<1>>)
  ELSE LET d == evalToTemporalAs(t, date) IN
       IF d = Null THEN R(Null, "convert", <<1>>)
       ELSE IF checkZero /\ isZero(d) THEN R(Null, "nil", <<1>>)
       ELSE R(IF f = "" THEN d ELSE Field(f, d), "nil", <<1>>)

evalUnary(call, t, checkZero, f) ==
  LET date == call.args[1].out IN
  IF IsErr(date) THEN R(Null, ArgErr(1), <<1>>)
  ELSE IF date = Null THEN R(Null, "nil", <<1>>)
  ELSE LET d == evalToTemporalAs(t, date) IN
       IF d = Null \/ (checkZero /\ isZero(d)) THEN R(Null, "nil", <<1>>)
       ELSE R(IF f = "" THEN d ELSE Field(f, d), "nil", <<1>>)

builtinDate_eval(call) == evalUnary(call, "Date", FALSE, "")
builtinDayOfMonth_eval(call) == evalUnary(call, "Date", FALSE, "Day")
builtinDayOfWeek_eval(call) ==
  LET r == evalUnary(call, "Date", TRUE, "") IN
  IF r.v = Null THEN r
  ELSE R(newEvalInt64(Weekday(CivilDate(r.v)) + 1), "nil", r.ord)
builtinDayOfYear_eval(call) == evalUnary(call, "Date", TRUE, "YearDay")
builtinHour_eval(call) == evalUnary(call, "Time", FALSE, "Hour")
builtinMicrosecond_eval(call) == evalUnary(call, "Time", FALSE, "Microsecond")
builtinMinute_eval(call) == evalUnary(call, "Time", FALSE, "Minute")
builtinMonth_eval(call) == evalUnary(call, "Date", FALSE, "Month")
\* the month of a zero date is 0, outside 1..12
builtinMonthName_eval(call) == evalUnary(call, "Date", TRUE, "MonthName")
builtinQuarter_eval(call) == evalUnary(call, "Date", FALSE, "Quarter")
builtinSecond_eval(call) == evalUnary(call, "Time", FALSE, "Second")
builtinTime_eval(call) == evalUnary(call, "Time", FALSE, "")
builtinWeekDay_eval_sundayFirst(call) ==
  LET r == evalUnary(call, "Date", TRUE, "") IN
  IF r.v = Null THEN r
  ELSE R(newEvalInt64(Weekday(CivilDate(r.v))), "nil", r.ord)
builtinWeekDay_eval(call) ==
  LET r == evalUnary(call, "Date", TRUE, "") IN
  IF r.v = Null THEN r
  ELSE R(newEvalInt64((Weekday(CivilDate(r.v)) + 6) % 7), "nil", r.ord)
builtinWeekOfYear_eval(call) ==
  LET r == evalUnary(call, "Date", TRUE, "") IN
  IF r.v = Null THEN r
  ELSE R(newEvalInt64(ISOWeek(CivilDate(r.v))), "nil", r.ord)
builtinYear_eval(call) == evalUnary(call, "Date", FALSE, "Year")

\* CallExpr.arg2: both arguments, left to right, stopping at an error
arg2(call) ==
  LET left == call.args[1].out
      right == call.args[2].out
  IN IF IsErr(left) THEN [left |-> Null, right |-> Null, err |-> ArgErr(1), ord |-> <<1>>]
     ELSE IF IsErr(right)
     THEN [left |-> left, right |-> Null, err |-> ArgErr(2), ord |-> <<1, 2>>]
     ELSE [left |-> left, right |-> right, err |-> "nil", ord |-> <<1, 2>>]

\* evalToBinary(format) followed by datetime.Format
formatText(format, dt, ord) ==
  IF format = Null THEN R(Null, "panic", ord)
  ELSE IF FormatFails(format) THEN R(Null, "format", ord)
  ELSE R([k |-> "text", fmt |-> format, of |-> dt], "nil", ord)

builtinDateFormat_eval(call) ==
  LET a == arg2(call) IN
  IF a.err # "nil" THEN R(Null, a.err, a.ord)
  ELSE IF a.left = Null \/ a.right = Null THEN R(Null, "nil", a.ord)
  ELSE LET t == IF a.left.k = "temporal"
                THEN [k |-> "temporal", t |-> "Datetime", zero |-> a.left.cv = "zero",
                      of |-> a.left]
                ELSE evalToDateTime(a.left)
       IN IF a.left.k # "temporal" /\ (t = Null \/ isZero(t)) THEN R(Null, "nil", a.ord)
          ELSE formatText(a.right, t, a.ord)

\* convertTz fails when the formatted datetime does not parse back.
convertTz(dt) == dt.of.cv # "noparse"

\* the precision evalToDateTime(n, -1) gives the converted value
evalPrec(d) ==
  CASE d.of.k = "temporal" -> d.of.prec
    [] d.of.k = "dec" -> d.of.len
    [] d.of.k \in {"float", "bytes"} -> IF d.of.fr = 0 THEN 0 ELSE 6
    [] OTHER -> 0

newEvalDateTime(out, prec) ==
  [k |-> "temporal", t |-> "Datetime", zero |-> FALSE, of |-> out, prec |-> prec]

builtinConvertTz_eval_zoneError(call) ==
  LET n == call.args[1].out
      from == call.args[2].out
      to == call.args[3].out
  IN IF IsErr(n) THEN R(Null, ArgErr(1), <<1>>)
     ELSE IF IsErr(from) THEN R(Null, ArgErr(2), <<1, 2>>)
     ELSE IF IsErr(to) THEN R(Null, ArgErr(3), <<1, 2, 3>>)
     ELSE IF n = Null \/ from = Null \/ to = Null THEN R(Null, "nil", <<1, 2, 3>>)
     ELSE IF ~ParseTimeZoneOk(from) THEN R(Null, "zone", <<1, 2, 3>>)
     ELSE IF ~ParseTimeZoneOk(to) THEN R(Null, "zone", <<1, 2, 3>>)
     ELSE LET dt == evalToDateTime(n) IN
          IF dt = Null \/ isZero(dt) THEN R(Null, "nil", <<1, 2, 3>>)
          ELSE IF ~convertTz(dt) THEN R(Null, "nil", <<1, 2, 3>>)
          ELSE R(newEvalDateTime(<<"convertTz", dt, from, to>>, evalPrec(dt)),
                 "nil", <<1, 2, 3>>)

builtinConvertTz_eval(call) ==
  LET n == call.args[1].out
      from == call.args[2].out
      to == call.args[3].out
  IN IF IsErr(n) THEN R(Null, ArgErr(1), <<1>>)
     ELSE IF IsErr(from) THEN R(Null, ArgErr(2), <<1, 2>>)
     ELSE IF IsErr(to) THEN R(Null, ArgErr(3), <<1, 2, 3>>)
     ELSE IF n = Null \/ from = Null \/ to = Null THEN R(Null, "nil", <<1, 2, 3>>)
     ELSE IF ~ParseTimeZoneOk(from) THEN R(Null, "nil", <<1, 2, 3>>)
     ELSE IF ~ParseTimeZoneOk(to) THEN R(Null, "nil", <<1, 2, 3>>)
     ELSE LET dt == evalToDateTime(n) IN
          IF dt = Null \/ isZero(dt) THEN R(Null, "nil", <<1, 2, 3>>)
          ELSE IF ~convertTz(dt) THEN R(Null, "nil", <<1, 2, 3>>)
          ELSE R(newEvalDateTime(<<"convertTz", dt, from, to>>, evalPrec(dt)),
                 "nil", <<1, 2, 3>>)

\* Date.Week(mode) and Date.YearWeek(mode) of the datetime package
weekOf(f, d, mode) == [k |-> "field", f |-> f, mode |-> mode, of |-> d]

evalWeek_defaultModeOne(call, f) ==
  LET date == call.args[1].out IN
  IF IsErr(date) THEN R(Null, ArgErr(1), <<1>>)
  ELSE IF date = Null THEN R(Null, "nil", <<1>>)
  ELSE LET d == evalToDate(date) IN
       IF d = Null \/ isZero(d) THEN R(Null, "nil", <<1>>)
       ELSE IF Len(call.args) = 2
       THEN LET m == call.args[2].out IN
            IF IsErr(m) THEN R(Null, ArgErr(2), <<1, 2>>)
            ELSE IF m = Null THEN R(Null, "nil", <<1, 2>>)
            ELSE R(weekOf(f, d, evalToInt64(m)), "nil", <<1, 2>>)
       ELSE R(weekOf(f, d, Z(1)), "nil", <<1>>)

\* WEEK and YEARWEEK: the mode is evaluated after the date was converted.
evalWeek(call, f) ==
  LET date == call.args[1].out IN
  IF IsErr(date) THEN R(Null, ArgErr(1), <<1>>)
  ELSE IF date = Null THEN R(Null, "nil", <<1>>)
  ELSE LET d == evalToDate(date) IN
       IF d = Null \/ isZero(d) THEN R(Null, "nil", <<1>>)
       ELSE IF Len(call.args) = 2
       THEN LET m == call.args[2].out IN
            IF IsErr(m) THEN R(Null, ArgErr(2), <<1, 2>>)
            ELSE IF m = Null THEN R(Null, "nil", <<1, 2>>)
            ELSE R(weekOf(f, d, evalToInt64(m)), "nil", <<1, 2>>)
       ELSE R(weekOf(f, d, Z(0)), "nil", <<1>>)

builtinWeek_eval(call) == evalWeek(call, "Week")
builtinYearWeek_eval(call) == evalWeek(call, "YearWeek")

\* ts.Unix() as an integer when dt.prec is 0, else as a decimal of that scale
unixOf(dt) ==
  IF evalPrec(dt) = 0 THEN [k |-> "int", unix |-> dt.of, cv |-> "fail"]
  ELSE [k |-> "dec", unix |-> dt.of, len |-> evalPrec(dt), cv |-> "fail"]

dateTimeUnixTimestamp_alwaysInt(date) ==
  LET dt == IF date.k = "temporal"
            THEN [k |-> "temporal", t |-> "Datetime", zero |-> date.cv = "zero",
                  of |-> date, prec |-> date.prec]
            ELSE evalToDateTime(date)
  IN IF date.k # "temporal" /\ (dt = Null \/ isZero(dt))
     THEN CASE date.k \in {"int", "uint"} -> VInt(Z(0))
            [] date.k = "dec" -> VDec(FALSE, Z(0), 0, date.len)
            [] date.k = "bytes" /\ date.lit = "hex" -> VInt(Z(0))
            [] OTHER -> VDec(FALSE, Z(0), 0, 6)
     ELSE [k |-> "int", unix |-> dt.of, cv |-> "fail"]

dateTimeUnixTimestamp_nilOnFailure(date) ==
  LET dt == IF date.k = "temporal"
            THEN [k |-> "temporal", t |-> "Datetime", zero |-> date.cv = "zero",
                  of |-> date, prec |-> date.prec]
            ELSE evalToDateTime(date)
  IN IF date.k # "temporal" /\ (dt = Null \/ isZero(dt)) THEN Null
     ELSE unixOf(dt)

\* dateTimeUnixTimestamp
dateTimeUnixTimestamp(date) ==
  LET dt == IF date.k = "temporal"
            THEN [k |-> "temporal", t |-> "Datetime", zero |-> date.cv = "zero",
                  of |-> date, prec |-> date.prec]
            ELSE evalToDateTime(date)
  IN IF date.k # "temporal" /\ (dt = Null \/ isZero(dt))
     THEN CASE date.k \in {"int", "uint"} -> VInt(Z(0))
            [] date.k = "dec" -> VDec(FALSE, Z(0), 0, date.len)
            [] date.k = "bytes" /\ date.lit = "hex" -> VInt(Z(0))
            [] OTHER -> VDec(FALSE, Z(0), 0, 6)
     ELSE unixOf(dt)

builtinUnixTimestamp_eval(call) ==
  LET date == call.args[1].out IN
  IF IsErr(date) THEN R(Null, ArgErr(1), <<1>>)
  ELSE IF date = Null THEN R(Null, "nil", <<1>>)
  ELSE R(dateTimeUnixTimestamp(date), "nil", <<1>>)

builtinDateMath_eval(call) ==
  LET date == call.args[1].out
      itv == call.args[2].out
  IN IF IsErr(date) THEN R(Null, ArgErr(1), <<1>>)
     ELSE IF date = Null THEN R(Null, "nil", <<1>>)
     ELSE IF IsErr(itv) THEN R(Null, ArgErr(2), <<1, 2>>)
     ELSE IF itv = Null THEN R(Null, "nil", <<1, 2>>)
     ELSE IF evalToIntervalNil(itv) THEN R(Null, "nil", <<1, 2>>)
     ELSE IF date.k = "temporal"
     THEN R([k |-> "dateadd", of |-> date, itv |-> itv, sub |-> call.sub,
             unit |-> call.unit], "nil", <<1, 2>>)
     ELSE IF date.cv # "fail"
     THEN R([k |-> "dateadd", of |-> date, itv |-> itv, sub |-> call.sub,
             unit |-> call.unit], "nil", <<1, 2>>)
     ELSE R(Null, "nil", <<1, 2>>)

(***************************************************************************)
(* FROM_UNIXTIME.                                                          *)
(***************************************************************************)
Parts(sec, frac, prec) == [sec |-> sec, frac |-> frac, prec |-> prec]

\* math.Modf(f): sec = int64(sf), frac = int64(ff * 1e9), prec = 6
fromUnixtimeFloat_precByValue(neg, ip, fr) ==
  Parts(IF neg THEN NumNeg(ip) ELSE ip, IF neg THEN -fr ELSE fr,
        IF fr = 0 THEN 0 ELSE 6)
fromUnixtimeFloat(neg, ip, fr) ==
  Parts(IF neg THEN NumNeg(ip) ELSE ip, IF neg THEN -fr ELSE fr, 6)

\* dec.QuoRem(decimal.New(1, 0), 0): the quotient and the remainder carry the
\* sign of the decimal; prec is the declared scale
fromUnixtimeDecimal(neg, ip, fr, len) ==
  Parts(IF neg THEN NumNeg(ip) ELSE ip, IF neg THEN -fr ELSE fr, len)

\* The switch on the kind of ts: whole seconds, nanoseconds, precision.
fromUnixtimeParts(ts) ==
  CASE ts.k = "int" -> Parts(ts.n, 0, 0)
    [] ts.k = "uint" -> Parts(Int64OfUint64(ts.n), 0, 0)
    [] ts.k = "float" -> fromUnixtimeFloat(ts.neg, ts.ip, ts.fr)
    [] ts.k = "dec" -> fromUnixtimeDecimal(ts.neg, ts.ip, ts.fr, ts.len)
    [] ts.k = "temporal" ->
         IF ts.prec = 0 THEN Parts(ts.n, 0, 0)
         ELSE fromUnixtimeDecimal(FALSE, ts.n, ts.fr, ts.prec)
    [] ts.k = "bytes" ->
         IF isHexOrBitLiteral(ts) THEN Parts(Int64OfUint64(ts.u), 0, 0)
         ELSE fromUnixtimeFloat(ts.neg, ts.ip, ts.fr)
    [] OTHER -> fromUnixtimeFloat(FALSE, Z(0), 0)

\* sec < 0 || sec >= maxUnixtime
fromUnixtimeOutOfRange(sec) == NumLt(sec, Z(0)) \/ NumGe(sec, maxUnixtime)

\* newEvalDateTime(datetime.NewDateTimeFromStd(time.Unix(sec, frac)), prec):
\* time.Unix brings the nanoseconds into [0, 1e9)
newUnixDateTime(sec, frac, prec) ==
  [k |-> "temporal", t |-> "Datetime",
   sec |-> IF frac < 0 THEN N(sec.b, sec.o - 1) ELSE sec,
   ns |-> IF frac < 0 THEN frac + NanosPerSec ELSE frac,
   prec |-> prec]

builtinFromUnixtime_eval(call) ==
  LET ts == call.args[1].out IN
  IF IsErr(ts) THEN R(Null, ArgErr(1), <<1>>)
  ELSE IF ts = Null THEN R(Null, "nil", <<1>>)
  ELSE LET p == fromUnixtimeParts(ts) IN
       IF fromUnixtimeOutOfRange(p.sec) THEN R(Null, "nil", <<1>>)
       ELSE LET dt == newUnixDateTime(p.sec, p.frac, p.prec) IN
            IF Len(call.args) = 1 THEN R(dt, "nil", <<1>>)
            ELSE LET format == call.args[2].out IN
                 IF IsErr(format) THEN R(Null, ArgErr(2), <<1, 2>>)
                 ELSE formatText(format, dt, <<1, 2>>)

(***************************************************************************)
(* MAKEDATE.                                                               *)
(***************************************************************************)

\* time.Date(y, January, 1, ...).AddDate(0, 0, d - 1): day d of year y,
\* normalised (400 years are 146097 days)
RECURSIVE normYearDay(_, _)
normYearDay(y, d) ==
  IF d > 146097
  THEN LET c == (d - 1) \div 146097 IN normYearDay(y + 400 * c, d - 146097 * c)
  ELSE IF d > DaysInYear(y) THEN normYearDay(y + 1, d - DaysInYear(y))
  ELSE [y |-> y, d |-> d]

RECURSIVE monthDay(_, _, _)
monthDay(y, m, d) ==
  IF d > DaysInMonth(y, m) THEN monthDay(y, m + 1, d - DaysInMonth(y, m))
  ELSE [y |-> y, m |-> m, d |-> d]

\* time.Time{}: January 1, year 1
ZeroTime == [y |-> 1, m |-> 1, d |-> 1]
IsZeroTime(t) == t = ZeroTime

\* the int value of a number at or below math.MaxInt32
PlainInt(n) == IF n.b = LMaxInt32 THEN 2147483647 + n.o ELSE n.o

yearDayToTime_noYearCheck(y, yd) ==
  LET y1 == IF NumGe(y, Z(0)) /\ NumLt(y, Z(100))
            THEN (IF NumLt(y, Z(70)) THEN Z(y.o + 2000) ELSE Z(y.o + 1900))
            ELSE y
  IN IF NumLt(y1, Z(0)) \/ NumGt(y1, Z(9999)) \/ NumLt(yd, Z(1)) \/ NumGt(yd, MaxInt32)
     THEN ZeroTime
     ELSE LET t == normYearDay(y1.o, PlainInt(yd)) IN monthDay(t.y, 1, t.d)

yearDayToTime_pivot69(y, yd) ==
  LET y1 == IF NumGe(y, Z(0)) /\ NumLt(y, Z(100))
            THEN (IF NumLt(y, Z(69)) THEN Z(y.o + 2000) ELSE Z(y.o + 1900))
            ELSE y
  IN IF NumLt(y1, Z(0)) \/ NumGt(y1, Z(9999)) \/ NumLt(yd, Z(1)) \/ NumGt(yd, MaxInt32)
     THEN ZeroTime
     ELSE LET t == normYearDay(y1.o, PlainInt(yd)) IN
          IF t.y > 9999 THEN ZeroTime ELSE monthDay(t.y, 1, t.d)

yearDayToTime(y, yd) ==
  LET y1 == IF NumGe(y, Z(0)) /\ NumLt(y, Z(100))
            THEN (IF NumLt(y, Z(70)) THEN Z(y.o + 2000) ELSE Z(y.o + 1900))
            ELSE y
  IN IF NumLt(y1, Z(0)) \/ NumGt(y1, Z(9999)) \/ NumLt(yd, Z(1)) \/ NumGt(yd, MaxInt32)
     THEN ZeroTime
     ELSE LET t == normYearDay(y1.o, PlainInt(yd)) IN
          IF t.y > 9999 THEN ZeroTime ELSE monthDay(t.y, 1, t.d)

newEvalDate(t) == [k |-> "temporal", t |-> "Date", y |-> t.y, m |-> t.m, d |-> t.d]

\* the year day is evaluated first, then the year
builtinMakedate_eval_yearFirst(call) ==
  LET yearDay == call.args[2].out
      year == call.args[1].out
  IN IF IsErr(year) THEN R(Null, ArgErr(1), <<1>>)
     ELSE IF year = Null THEN R(Null, "nil", <<1>>)
     ELSE IF IsErr(yearDay) THEN R(Null, ArgErr(2), <<1, 2>>)
     ELSE IF yearDay = Null THEN R(Null, "nil", <<1, 2>>)
     ELSE LET t == yearDayToTime(evalToInt64(year), evalToInt64(yearDay)) IN
          IF IsZeroTime(t) THEN R(Null, "nil", <<1, 2>>)
          ELSE R(newEvalDate(t), "nil", <<1, 2>>)
builtinMakedate_eval(call) ==
  LET yearDay == call.args[2].out
      year == call.args[1].out
  IN IF IsErr(yearDay) THEN R(Null, ArgErr(2), <<2>>)
     ELSE IF yearDay = Null THEN R(Null, "nil", <<2>>)
     ELSE IF IsErr(year) THEN R(Null, ArgErr(1), <<2, 1>>)
     ELSE IF year = Null THEN R(Null, "nil", <<2, 1>>)
     ELSE LET t == yearDayToTime(evalToInt64(year), evalToInt64(yearDay)) IN
          IF IsZeroTime(t) THEN R(Null, "nil", <<2, 1>>)
          ELSE R(newEvalDate(t), "nil", <<2, 1>>)

(***************************************************************************)
(* MAKETIME.                                                               *)
(***************************************************************************)
Clamp(h, m, neg, clamped) == [h |-> h, m |-> m, neg |-> neg, clamped |-> clamped]

\* h and m come in as numbers; the clamped hour and minute are small ints
clampHourMinute_keepMinute(h, m) ==
  LET clamped == NumGt(h, Z(838)) \/ NumLt(h, Z(-838))
      h1 == IF clamped THEN (IF NumGt(h, Z(0)) THEN 838 ELSE -838) ELSE h.o
  IN Clamp(IF h1 < 0 THEN -h1 ELSE h1, m.o, h1 < 0, clamped)
clampHourMinute_signOfInput(h, m) ==
  LET clamped == NumGt(h, Z(838)) \/ NumLt(h, Z(-838))
      h1 == IF clamped THEN (IF NumGt(h, Z(0)) THEN 838 ELSE -838) ELSE h.o
      m1 == IF clamped THEN 59 ELSE m.o
  IN Clamp(IF h1 < 0 THEN -h1 ELSE h1, m1, (~clamped) /\ h1 < 0, clamped)
clampHourMinute(h, m) ==
  LET clamped == NumGt(h, Z(838)) \/ NumLt(h, Z(-838))
      h1 == IF clamped THEN (IF NumGt(h, Z(0)) THEN 838 ELSE -838) ELSE h.o
      m1 == IF clamped THEN 59 ELSE m.o
      neg == h1 < 0
  IN Clamp(IF neg THEN -h1 ELSE h1, m1, neg, clamped)

\* the encoded time: sign, hhmmss, nanoseconds
Enc(neg, hms, fr, ok) == [neg |-> neg, hms |-> hms, fr |-> fr, ok |-> ok]

makeTime_i_lateCheck(h, m, s) ==
  LET c == clampHourMinute(h, m) IN
  IF (~c.clamped) /\ (NumLt(m, Z(0)) \/ NumGt(m, Z(59)) \/ NumLt(s, Z(0)) \/ NumGt(s, Z(59)))
  THEN Enc(FALSE, 0, 0, FALSE)
  ELSE LET s1 == IF c.clamped THEN 59 ELSE s.o
           v == c.h * 10000 + c.m * 100 + s1
       IN Enc(c.neg /\ v # 0, v, 0, TRUE)
makeTime_i(h, m, s) ==
  IF NumLt(m, Z(0)) \/ NumGt(m, Z(59)) \/ NumLt(s, Z(0)) \/ NumGt(s, Z(59))
  THEN Enc(FALSE, 0, 0, FALSE)
  ELSE LET c == clampHourMinute(h, m)
           s1 == IF c.clamped THEN 59 ELSE s.o
           v == c.h * 10000 + c.m * 100 + s1
       IN Enc(c.neg /\ v # 0, v, 0, TRUE)

\* s.Sign() < 0 and s.Cmp(60) >= 0 of a decimal or a float second
fracNegative(s) == s.neg /\ (s.ip # Z(0) \/ s.fr # 0)
fracAtLeast60(s) == (~s.neg) /\ NumGe(s.ip, Z(60))

makeTime_d(h, m, s) ==
  IF NumLt(m, Z(0)) \/ NumGt(m, Z(59)) \/ fracNegative(s) \/ fracAtLeast60(s)
  THEN Enc(FALSE, 0, 0, FALSE)
  ELSE LET c == clampHourMinute(h, m)
           sip == IF c.clamped THEN 59 ELSE s.ip.o
           sfr == IF c.clamped THEN 0 ELSE s.fr
           v == c.h * 10000 + c.m * 100 + sip
       IN Enc(c.neg /\ (v # 0 \/ sfr # 0), v, sfr, TRUE)

makeTime_f(h, m, s) ==
  IF NumLt(m, Z(0)) \/ NumGt(m, Z(59)) \/ fracNegative(s) \/ fracAtLeast60(s)
  THEN Enc(FALSE, 0, 0, FALSE)
  ELSE LET c == clampHourMinute(h, m)
           sip == IF c.clamped THEN 59 ELSE s.ip.o
           sfr == IF c.clamped THEN 0 ELSE s.fr
           v == c.h * 10000 + c.m * 100 + sip
       IN Enc(c.neg /\ (v # 0 \/ sfr # 0), v, sfr, TRUE)

\* datetime.ParseTimeInt64 / ParseTimeDecimal / ParseTimeFloat: hhmmss back
\* to a time of at most 838:59:59
ParseTime(e, prec) ==
  LET hh == e.hms \div 10000
      mm == (e.hms \div 100) % 100
      ss == e.hms % 100
  IN [ok |-> hh <= 838 /\ mm <= 59 /\ ss <= 59,
      t |-> [k |-> "temporal", t |-> "Time", neg |-> e.neg, h |-> hh, m |-> mm,
             s |-> ss, fr |-> e.fr, prec |-> prec]]

\* the three arguments, left to right, each with its error and null check
maketimeArgs_evalAll(call) ==
  LET hour == call.args[1].out
      min == call.args[2].out
      sec == call.args[3].out
  IN IF IsErr(hour) THEN [done |-> TRUE, res |-> R(Null, ArgErr(1), <<1, 2, 3>>)]
     ELSE IF IsErr(min) THEN [done |-> TRUE, res |-> R(Null, ArgErr(2), <<1, 2, 3>>)]
     ELSE IF IsErr(sec) THEN [done |-> TRUE, res |-> R(Null, ArgErr(3), <<1, 2, 3>>)]
     ELSE IF hour = Null \/ min = Null \/ sec = Null
     THEN [done |-> TRUE, res |-> R(Null, "nil", <<1, 2, 3>>)]
     ELSE [done |-> FALSE, res |-> R(Null, "nil", <<1, 2, 3>>)]
maketimeArgs(call) ==
  LET hour == call.args[1].out
      min == call.args[2].out
      sec == call.args[3].out
  IN IF IsErr(hour) THEN [done |-> TRUE, res |-> R(Null, ArgErr(1), <<1>>)]
     ELSE IF hour = Null THEN [done |-> TRUE, res |-> R(Null, "nil", <<1>>)]
     ELSE IF IsErr(min) THEN [done |-> TRUE, res |-> R(Null, ArgErr(2), <<1, 2>>)]
     ELSE IF min = Null THEN [done |-> TRUE, res |-> R(Null, "nil", <<1, 2>>)]
     ELSE IF IsErr(sec) THEN [done |-> TRUE, res |-> R(Null, ArgErr(3), <<1, 2, 3>>)]
     ELSE IF sec = Null THEN [done |-> TRUE, res |-> R(Null, "nil", <<1, 2, 3>>)]
     ELSE [done |-> FALSE, res |-> R(Null, "nil", <<1, 2, 3>>)]

\* the int64 hour of the hour operand
\* int64(hour.u) without the comparison with math.MaxInt64
maketimeHour_wrap(hour) ==
  CASE hour.k = "int" -> hour.n
    [] hour.k = "uint" -> Int64OfUint64(hour.n)
    [] hour.k = "bytes" /\ isHexOrBitLiteral(hour) -> Int64OfUint64(hour.u)
    [] OTHER -> evalToInt64(hour)

maketimeHour(hour) ==
  CASE hour.k = "int" -> hour.n
    [] hour.k = "uint" -> IF NumGt(hour.n, MaxInt64) THEN MaxInt64 ELSE hour.n
    [] hour.k = "bytes" /\ isHexOrBitLiteral(hour) ->
         IF NumGt(hour.u, MaxInt64) THEN MaxInt64 ELSE hour.u
    [] OTHER -> evalToInt64(hour)

\* the switch on the kind of the numeric second
maketimeOfSecond(h, m, s) ==
  CASE s.k = "int" ->
         LET e == makeTime_i(h, m, s.n) IN
         IF ~e.ok THEN [ok |-> FALSE] ELSE ParseTime(e, 0)
    [] s.k = "uint" ->
         LET e == makeTime_i(h, m, Int64OfUint64(s.n)) IN
         IF ~e.ok THEN [ok |-> FALSE] ELSE ParseTime(e, 0)
    [] s.k = "dec" ->
         LET e == makeTime_d(h, m, s) IN
         IF ~e.ok THEN [ok |-> FALSE] ELSE ParseTime(e, s.len)
    [] s.k = "float" ->
         LET e == makeTime_f(h, m, s) IN
         IF ~e.ok THEN [ok |-> FALSE] ELSE ParseTime(e, 6)

builtinMaketime_eval(call) ==
  LET a == maketimeArgs(call) IN
  IF a.done THEN a.res
  ELSE LET h == maketimeHour(call.args[1].out)
           m == evalToInt64(call.args[2].out)
           s == evalToNumeric(call.args[3].out)
           p == maketimeOfSecond(h, m, s)
       IN IF ~p.ok THEN R(Null, "nil", a.res.ord) ELSE R(p.t, "nil", a.res.ord)

(***************************************************************************)
(* The clock-reading builtins.  The environment of a statement holds the   *)
(* instant it cached (env.now); a raw value remembers the instant it was   *)
(* formatted from.                                                         *)
(***************************************************************************)
\* ExpressionEnv.time(utc): the cached instant, in UTC or the session zone
envTime(env, utc) == [at |-> env.now, utc |-> utc]
newEvalRaw(t, now, prec) ==
  [k |-> "raw", t |-> t, at |-> now.at, utc |-> now.utc, prec |-> prec]

builtinNow_eval(call, env) ==
  LET now == envTime(env, call.utc) IN
  IF call.onlyTime THEN R(newEvalRaw("Time", now, call.prec), "nil", <<>>)
  ELSE R(newEvalRaw("Datetime", now, call.prec), "nil", <<>>)

builtinSysdate_eval(call, env) ==
  LET now == [at |-> SystemTime, utc |-> FALSE] IN
  R(newEvalRaw("Datetime", now, call.prec), "nil", <<>>)

builtinCurdate_eval(call, env) ==
  R(newEvalRaw("Date", envTime(env, FALSE), 0), "nil", <<>>)

builtinUtcDate_eval(call, env) ==
  R(newEvalRaw("Date", envTime(env, TRUE), 0), "nil", <<>>)

\* UNIX_TIMESTAMP(): the cached instant as a number
builtinUnixTimestamp0_eval(call, env) ==
  R([k |-> "int", at |-> env.now, cv |-> "fail"], "nil", <<>>)

(***************************************************************************)
(* constant() of the builtins that declare it.                             *)
(***************************************************************************)
builtinNow_constant(call) == FALSE
builtinSysdate_constant(call) == FALSE
builtinCurdate_constant(call) == FALSE
builtinUtcDate_constant(call) == FALSE
builtinUnixTimestamp_constant_always(call) == TRUE
builtinUnixTimestamp_constant(call) ==
  IF Len(call.args) = 0 THEN FALSE ELSE call.args[1].const

ConstantFns == {"NOW", "SYSDATE", "CURDATE", "UTC_DATE", "UNIX_TIMESTAMP"}
constant(call) ==
  CASE call.fn = "NOW" -> builtinNow_constant(call)
    [] call.fn = "SYSDATE" -> builtinSysdate_constant(call)
    [] call.fn = "CURDATE" -> builtinCurdate_constant(call)
    [] call.fn = "UTC_DATE" -> builtinUtcDate_constant(call)
    [] call.fn = "UNIX_TIMESTAMP" -> builtinUnixTimestamp_constant(call)

eval(call, env) ==
  CASE call.fn = "NOW" -> builtinNow_eval(call, env)
    [] call.fn = "SYSDATE" -> builtinSysdate_eval(call, env)
    [] call.fn = "CURDATE" -> builtinCurdate_eval(call, env)
    [] call.fn = "UTC_DATE" -> builtinUtcDate_eval(call, env)
    [] call.fn = "UNIX_TIMESTAMP" /\ Len(call.args) = 0 ->
         builtinUnixTimestamp0_eval(call, env)
    [] call.fn = "DATE_FORMAT" -> builtinDateFormat_eval(call)
    [] call.fn = "CONVERT_TZ" -> builtinConvertTz_eval(call)
    [] call.fn = "DATE" -> builtinDate_eval(call)
    [] call.fn = "DAYOFMONTH" -> builtinDayOfMonth_eval(call)
    [] call.fn = "DAYOFWEEK" -> builtinDayOfWeek_eval(call)
    [] call.fn = "DAYOFYEAR" -> builtinDayOfYear_eval(call)
    [] call.fn = "FROM_UNIXTIME" -> builtinFromUnixtime_eval(call)
    [] call.fn = "HOUR" -> builtinHour_eval(call)
    [] call.fn = "MAKEDATE" -> builtinMakedate_eval(call)
    [] call.fn = "MAKETIME" -> builtinMaketime_eval(call)
    [] call.fn = "MICROSECOND" -> builtinMicrosecond_eval(call)
    [] call.fn = "MINUTE" -> builtinMinute_eval(call)
    [] call.fn = "MONTH" -> builtinMonth_eval(call)
    [] call.fn = "MONTHNAME" -> builtinMonthName_eval(call)
    [] call.fn = "QUARTER" -> builtinQuarter_eval(call)
    [] call.fn = "SECOND" -> builtinSecond_eval(call)
    [] call.fn = "TIME" -> builtinTime_eval(call)
    [] call.fn = "UNIX_TIMESTAMP" -> builtinUnixTimestamp_eval(call)
    [] call.fn = "WEEK" -> builtinWeek_eval(call)
    [] call.fn = "WEEKDAY" -> builtinWeekDay_eval(call)
    [] call.fn = "WEEKOFYEAR" -> builtinWeekOfYear_eval(call)
    [] call.fn = "YEAR" -> builtinYear_eval(call)
    [] call.fn = "YEARWEEK" -> builtinYearWeek_eval(call)
    [] call.fn = "DATE_ADD" -> builtinDateMath_eval(call)

(***************************************************************************)
(* The virtual machine.  It runs a program over the row of a call: a stack *)
(* of values, the order in which argument sub-programs ran, the opcodes    *)
(* executed.  rnd says whether toInt64 of a temporal value rounds its      *)
(* fraction or drops it.                                                   *)
(***************************************************************************)
VmFns == {"FROM_UNIXTIME", "MAKEDATE", "MAKETIME", "WEEK", "YEARWEEK"}

DestOf(prog, j) == CHOOSE p \in 1..Len(prog) : prog[p].op = "dest" /\ j \in prog[p].js

Top(stack, off) == stack[Len(stack) - off + 1]
SetTop(stack, off, v) == [stack EXCEPT ![Len(stack) - off + 1] = v]
Pop(stack, n) == SubSeq(stack, 1, Len(stack) - n)

\* evalTemporal.toInt64
temporalToInt64(v, rnd) ==
  IF rnd /\ v.fr >= HalfSec THEN N(v.n.b, v.n.o + 1) ELSE v.n

\* the datetime a FROM_UNIXTIME opcode leaves, nil when out of range
vmFromUnixtime(p) ==
  IF fromUnixtimeOutOfRange(p.sec) THEN Null
  ELSE newUnixDateTime(p.sec, p.frac, p.prec)

\* the time a MAKETIME opcode leaves, nil when the operands are rejected
vmMaketime(e, prec) ==
  IF ~e.ok THEN Null
  ELSE LET p == ParseTime(e, prec) IN IF p.ok THEN p.t ELSE Null

\* the date a date opcode reads off the stack: converted by Convert_xD_nz, or
\* the Date or Datetime operand itself
vmDate(x) == IF "of" \in DOMAIN x THEN x ELSE evalToDate(x)

\* One opcode on the stack (the jumps and the argument sub-programs are Run's).
Step(ins, stack, rnd) ==
  LET x == Top(stack, IF "off" \in DOMAIN ins THEN ins.off ELSE 1) IN
  CASE ins.op = "Convert_Ti" -> SetTop(stack, ins.off, VInt(temporalToInt64(x, rnd)))
    [] ins.op = "Convert_xu" ->
         SetTop(stack, ins.off, VUint(IF x.k = "bytes" /\ x.lit # "none" THEN x.u
                                       ELSE evalToInt64(x)))
    [] ins.op = "Convert_xf" ->
         SetTop(stack, ins.off, LET n == evalToNumeric(x) IN
                                IF n.k = "float" THEN n
                                ELSE IF n.k = "dec" THEN VFloat(n.neg, n.ip, n.fr)
                                ELSE VFloat(FALSE, n.n, 0))
    [] ins.op = "Convert_xi" -> SetTop(stack, ins.off, VInt(evalToInt64(x)))
    [] ins.op = "Convert_ui" -> SetTop(stack, ins.off, VInt(Int64OfUint64(x.n)))
    [] ins.op = "Clamp_u" ->
         SetTop(stack, ins.off, IF NumGt(x.n, MaxInt64) THEN VUint(MaxInt64) ELSE x)
    [] ins.op = "Fn_FROM_UNIXTIME_i" ->
         SetTop(stack, 1, vmFromUnixtime(Parts(x.n, 0, 0)))
    [] ins.op = "Fn_FROM_UNIXTIME_u" ->
         SetTop(stack, 1, vmFromUnixtime(Parts(Int64OfUint64(x.n), 0, 0)))
    [] ins.op = "Fn_FROM_UNIXTIME_f" ->
         SetTop(stack, 1, vmFromUnixtime(fromUnixtimeFloat(x.neg, x.ip, x.fr)))
    [] ins.op = "Fn_FROM_UNIXTIME_d" ->
         SetTop(stack, 1, vmFromUnixtime(fromUnixtimeDecimal(x.neg, x.ip, x.fr, x.len)))
    [] ins.op = "Fn_MAKEDATE" ->
         LET t == yearDayToTime(Top(stack, 1).n, Top(stack, 2).n) IN
         Append(Pop(stack, 2), IF IsZeroTime(t) THEN Null ELSE newEvalDate(t))
    [] ins.op = "Fn_MAKETIME_i" ->
         Append(Pop(stack, 3),
                vmMaketime(makeTime_i(Top(stack, 3).n, Top(stack, 2).n, x.n), 0))
    [] ins.op = "Fn_MAKETIME_d" ->
         Append(Pop(stack, 3),
                vmMaketime(makeTime_d(Top(stack, 3).n, Top(stack, 2).n, x), x.len))
    [] ins.op = "Fn_MAKETIME_f" ->
         Append(Pop(stack, 3),
                vmMaketime(makeTime_f(Top(stack, 3).n, Top(stack, 2).n, x), 6))
    [] ins.op = "Convert_xb" -> stack
    [] ins.op = "Convert_xD_nz" ->
         SetTop(stack, ins.off, LET d == evalToDate(x) IN
                                IF d = Null \/ isZero(d) THEN Null ELSE d)
    [] ins.op = "Fn_WEEK0" -> SetTop(stack, 1, weekOf("Week", vmDate(x), Z(0)))
    [] ins.op = "Fn_YEARWEEK0" -> SetTop(stack, 1, weekOf("YearWeek", vmDate(x), Z(0)))
    [] ins.op = "Fn_WEEK" ->
         Append(Pop(stack, 2), weekOf("Week", vmDate(Top(stack, 2)), x.n))
    [] ins.op = "Fn_YEARWEEK" ->
         Append(Pop(stack, 2), weekOf("YearWeek", vmDate(Top(stack, 2)), x.n))
    [] ins.op = "Fn_DATE_FORMAT" ->
         Append(Pop(stack, 2), [k |-> "text", fmt |-> x, of |-> Top(stack, 2)])

VmResult(v, e, ord, ops) == [v |-> v, err |-> e, ord |-> ord, ops |-> ops]

RECURSIVE Run(_, _, _, _, _, _, _)
Run(call, prog, pc, stack, ord, ops, rnd) ==
  IF pc > Len(prog) THEN VmResult(Top(stack, 1), "nil", ord, ops)
  ELSE
    LET ins == prog[pc]
        ops1 == Append(ops, ins.op)
    IN CASE ins.op = "arg" ->
              LET out == call.args[ins.i].out IN
              IF IsErr(out) THEN VmResult(Null, ArgErr(ins.i), Append(ord, ins.i), ops1)
              ELSE Run(call, prog, pc + 1, Append(stack, out), Append(ord, ins.i), ops1, rnd)
         [] ins.op = "NullCheck1" ->
              IF Top(stack, 1) = Null
              THEN Run(call, prog, DestOf(prog, ins.j), stack, ord, ops1, rnd)
              ELSE Run(call, prog, pc + 1, stack, ord, ops1, rnd)
         [] ins.op = "NullCheck1r" ->
              IF Top(stack, 1) = Null
              THEN Run(call, prog, DestOf(prog, ins.j), Append(Pop(stack, 2), Null),
                       ord, ops1, rnd)
              ELSE Run(call, prog, pc + 1, stack, ord, ops1, rnd)
         [] ins.op = "NullCheck3" ->
              IF Top(stack, 1) = Null \/ Top(stack, 2) = Null \/ Top(stack, 3) = Null
              THEN Run(call, prog, DestOf(prog, ins.j), Append(Pop(stack, 3), Null),
                       ord, ops1, rnd)
              ELSE Run(call, prog, pc + 1, stack, ord, ops1, rnd)
         [] ins.op = "dest" -> Run(call, prog, pc + 1, stack, ord, ops, rnd)
         [] ins.op \in {"Fn_DATE_FORMAT", "Fn_WEEK", "Fn_YEARWEEK"}
            /\ Top(stack, 2) = Null ->
              Run(call, prog, pc + 1, Pop(stack, 1), ord, ops1, rnd)
         [] ins.op \in {"Fn_WEEK0", "Fn_YEARWEEK0"} /\ Top(stack, 1) = Null ->
              Run(call, prog, pc + 1, stack, ord, ops1, rnd)
         [] ins.op = "Fn_DATE_FORMAT" /\ FormatFails(Top(stack, 1)) ->
              VmResult(Null, "format", ord, ops1)
         [] OTHER -> Run(call, prog, pc + 1, Step(ins, stack, rnd), ord, ops1, rnd)

exec(call, prog, rnd) == Run(call, prog, 1, <<>>, <<>>, <<>>, rnd)

(***************************************************************************)
(* The call nodes the engine is run on.                                    *)
(***************************************************************************)
Fracs == {0, HalfSec}
Scales == 1..MaxScale

\* sign / whole part / fraction triples with the whole part drawn from ips
SignedFracs(ips) ==
  { [neg |-> neg, ip |-> ip, fr |-> fr] : neg \in BOOLEAN, ip \in ips, fr \in Fracs }

\* one-argument builtins: values that convert, convert to a zero date, or fail
UnaryVals ==
  { SetCv(VInt(Z(1)), c) : c \in {"ok", "zero", "fail"} }
  \cup { VTemporal("Date", Z(20200101), 0, 0, c) : c \in {"ok", "zero"} }
  \cup { VTemporal("Datetime", Z(20200101), 0, 0, "ok"),
         VTemporal("Time", Z(1), HalfSec, 1, "ok"),
         VStr(FALSE, Z(1), 0, "ok"), VStr(FALSE, Z(1), 0, "fail"),
         SetCv(VLit("hex", Z(1)), "fail"), SetCv(VLit("bit", Z(1)), "fail"),
         SetCv(VUint(Z(1)), "ok"),
         SetCv(VFloat(FALSE, Z(1), 0), "noparse"),
         SetCv(VDec(FALSE, Z(1), HalfSec, 1), "fail") }

UnaryArgs ==
  UNION { ArgsOf(v) : v \in UnaryVals }
  \cup { Arg("Int64", {flagAmbiguousType}, SetCv(VInt(Z(1)), "ok")) }
  \cup NullArgs({"Int64", "Datetime"}) \cup ErrArgs({"Int64"})

UnaryFns ==
  {"DATE", "DAYOFMONTH", "DAYOFWEEK", "DAYOFYEAR", "HOUR", "MICROSECOND", "MINUTE",
   "MONTH", "MONTHNAME", "QUARTER", "SECOND", "TIME", "WEEKDAY", "WEEKOFYEAR", "YEAR",
   "UNIX_TIMESTAMP"}

UnaryCalls == { Call(fn, <<a>>) : fn \in UnaryFns, a \in UnaryArgs }

ClockCalls ==
  { [Call("NOW", <<>>) EXCEPT !.utc = u, !.onlyTime = b, !.prec = p] :
      u \in BOOLEAN, b \in BOOLEAN, p \in {0, MaxScale} }
  \cup { [Call("SYSDATE", <<>>) EXCEPT !.prec = p] : p \in {0, MaxScale} }
  \cup { Call(fn, <<>>) : fn \in {"CURDATE", "UTC_DATE", "UNIX_TIMESTAMP"} }

\* UNIX_TIMESTAMP over an argument that is constant within the statement
ConstUnixTimestampCalls ==
  { Call("UNIX_TIMESTAMP", <<ConstArg(a)>>) : a \in UnaryArgs }

\* a few dates for the builtins with a second operand
DateArgs ==
  { a \in UnaryArgs : a.t \in {"Date", "Int64", "VarChar"} /\ a.fl \subseteq {flagNullable} }

TextArgs(good, bad) ==
  { Arg("VarChar", {}, VText(good)), Arg("VarChar", {flagNullable}, VText(bad)),
    Arg("Int64", {}, VInt(Z(1))) }
  \cup NullArgs({"VarChar"}) \cup ErrArgs({"VarChar"})

DateFormatCalls ==
  { Call("DATE_FORMAT", <<d, f>>) : d \in DateArgs, f \in TextArgs("fmt", "badfmt") }

ConvertTzCalls ==
  { Call("CONVERT_TZ", <<d, f, t>>) :
      d \in { a \in DateArgs : flagNullable \in a.fl }
            \cup { Arg("Datetime", {}, VTemporal("Datetime", Z(20200101), HalfSec, 1, "ok")),
                   Arg("VarChar", {}, VStr(FALSE, Z(2020), 0, "noparse")) },
      f \in TextArgs("zone", "badzone"), t \in TextArgs("zone", "badzone") }

\* the days of one week (Monday 2024-01-01 to Sunday 2024-01-07), a leap day
\* and days around the turn of a year with 53 ISO weeks
CalendarDates ==
  {20240101, 20240102, 20240103, 20240104, 20240105, 20240106, 20240107,
   20240229, 20201231, 20210103, 20210104}
CalendarArgs == { Arg("Date", {}, VTemporal("Date", Z(n), 0, 0, "ok")) : n \in CalendarDates }

CalendarCalls ==
  { Call(fn, <<a>>) : fn \in {"DAYOFWEEK", "WEEKDAY", "WEEKOFYEAR"}, a \in CalendarArgs }

ModeArgs ==
  { Arg("Int64", {}, VInt(Z(m))) : m \in 0..Around }
  \cup NullArgs({"Int64"}) \cup ErrArgs({"Int64"})

WeekCalls ==
  { Call(fn, <<d>>) : fn \in {"WEEK", "YEARWEEK"}, d \in DateArgs \cup CalendarArgs }
  \cup { Call(fn, <<d, m>>) :
           fn \in {"WEEK", "YEARWEEK"}, d \in DateArgs \cup CalendarArgs, m \in ModeArgs }

DateMathOperands ==
  { Arg(t, {}, VTemporal(t, Z(20200101), 0, 0, "ok")) :
      t \in {"Date", "Time", "Datetime", "Timestamp"} }
  \cup { Arg("VarChar", {flagNullable}, VStr(FALSE, Z(1), 0, c)) : c \in {"ok", "fail"} }
  \cup { Arg("Int64", {}, SetCv(VInt(Z(1)), "ok")) }
  \cup NullArgs({"Date", "VarChar"}) \cup ErrArgs({"Date"})

IntervalArgs ==
  { Arg("Int64", {}, VInt(Z(1))), Arg("VarChar", {}, VText("itv")),
    Arg("VarChar", {}, VText("baditv")) }
  \cup NullArgs({"Int64"}) \cup ErrArgs({"Int64"})

DateMathCalls ==
  { [Call("DATE_ADD", <<d, i>>) EXCEPT !.unit = u, !.sub = sb] :
      d \in DateMathOperands, i \in IntervalArgs,
      u \in {"DAY", "HOUR", "DAY_HOUR"}, sb \in BOOLEAN }

\* FROM_UNIXTIME: every kind of timestamp, around 0 and around maxUnixtime
UnixVals ==
  { VInt(n) : n \in NumsAround(Z(0)) \cup NumsAround(maxUnixtime) }
  \cup { VUint(n) : n \in { Z(d) : d \in 0..Around } \cup NumsAround(maxUnixtime)
                          \cup { N(LMaxInt64, 1), MaxUint64 } }
  \cup { VFloat(x.neg, x.ip, x.fr) :
           x \in SignedFracs({ Z(d) : d \in 0..Around } \cup NumsAround(maxUnixtime)) }
  \cup { VDec(x.neg, x.ip, x.fr, len) :
           x \in SignedFracs({ Z(0), Z(1), maxUnixtime }), len \in Scales }
  \cup { VTemporal("Time", Z(n), fr, prec, "ok") :
           n \in 0..Around, fr \in Fracs, prec \in 0..MaxScale }
  \cup { VLit(lit, u) : lit \in {"hex", "bit"}, u \in { Z(0), Z(1), maxUnixtime } }
  \cup { VStr(x.neg, x.ip, x.fr, "fail") : x \in SignedFracs({ Z(0), maxUnixtime }) }

\* a temporal value of precision 0 has no fraction
WellFormed(v) == v.k = "temporal" /\ v.prec = 0 => v.fr = 0

UnixArgs ==
  UNION { ArgsOf(v) : v \in { u \in UnixVals : WellFormed(u) } }
  \cup NullArgs({"Int64"}) \cup ErrArgs({"Int64"})

FromUnixtimeCalls ==
  { Call("FROM_UNIXTIME", <<ts>>) : ts \in UnixArgs }
  \cup { Call("FROM_UNIXTIME", <<ts, f>>) :
           ts \in { a \in UnixArgs : a.t \in {"Int64", "Float64"} },
           f \in TextArgs("fmt", "badfmt") }

\* MAKEDATE: years around the two-digit pivot and the range ends
YearArgs ==
  { Arg("Int64", {}, VInt(y)) :
      y \in NumsAround(Z(0)) \cup NumsAround(Z(70)) \cup NumsAround(Z(9999))
            \cup {Z(99), Z(100), Z(2024)} }
  \cup NullArgs({"Int64"}) \cup ErrArgs({"Int64"})
YearDayArgs ==
  { Arg("Int64", {}, VInt(d)) :
      d \in NumsAround(Z(1)) \cup NumsAround(Z(366)) \cup NumsAround(MaxInt32) \cup {Z(60)} }
  \cup { Arg("Uint64", {flagNullable}, VUint(Z(60))) }
  \cup NullArgs({"Int64"}) \cup ErrArgs({"Int64"})

MakedateCalls == { Call("MAKEDATE", <<y, d>>) : y \in YearArgs, d \in YearDayArgs }

\* MAKETIME: hours around the clamp, minutes and seconds around their ranges
HourArgs ==
  { Arg("Int64", {}, VInt(h)) :
      h \in NumsAround(Z(-838)) \cup NumsAround(Z(0)) \cup NumsAround(Z(838))
            \cup {Z(-900), Z(900)} }
  \cup { Arg("Uint64", {}, VUint(u)) : u \in {Z(1), N(LMaxInt64, 1), MaxUint64} }
  \cup { Arg("VarBinary", {flagHex}, VLit("hex", Z(900))),
         Arg("VarBinary", {flagBit}, VLit("bit", MaxUint64)) }
  \cup NullArgs({"Int64"}) \cup ErrArgs({"Int64"})

SixtyNums == NumsAround(Z(0)) \cup NumsAround(Z(59)) \cup {Z(30)}

MinuteArgs ==
  { Arg("Int64", {}, VInt(m)) : m \in SixtyNums }
  \cup NullArgs({"Int64"}) \cup ErrArgs({"Int64"})

SecondArgs ==
  { Arg("Int64", {}, VInt(x)) : x \in SixtyNums }
  \cup { Arg("Uint64", {}, VUint(u)) : u \in {Z(59), Z(60), MaxUint64} }
  \cup { Arg("Decimal", {}, VDec(x.neg, x.ip, x.fr, MaxScale)) :
           x \in SignedFracs({Z(0), Z(59), Z(60)}) }
  \cup { Arg("Float64", {}, VFloat(x.neg, x.ip, x.fr)) :
           x \in SignedFracs({Z(0), Z(59), Z(60)}) }
  \cup { Arg("VarBinary", {flagHex}, VLit("hex", Z(59))),
         Arg("VarBinary", {flagBit}, VLit("bit", Z(59))) }
  \cup NullArgs({"Int64"}) \cup ErrArgs({"Int64"})

MaketimeCalls ==
  { Call("MAKETIME", <<h, m, x>>) : h \in HourArgs, m \in MinuteArgs, x \in SecondArgs }

Calls ==
  ClockCalls \cup UnaryCalls \cup ConstUnixTimestampCalls \cup CalendarCalls \cup DateFormatCalls \cup ConvertTzCalls \cup WeekCalls
  \cup DateMathCalls \cup FromUnixtimeCalls \cup MakedateCalls \cup MaketimeCalls

(***************************************************************************)
(* The state: one call node and what each operation made of it.            *)
(***************************************************************************)
VARIABLES
  call,   \* the call node (immutable after construction)
  ty,     \* what typeof returned
  cc,     \* what compile returned: the program and the compiled descriptor
  ire,    \* what eval returned
  cre,    \* what running the compiled program returned
  cst,    \* what constant() returned
  env,    \* the environment of the statement, with the instant it cached
  obs,    \* the clock-reading evaluations of the statement so far
  procs,  \* the concurrent evaluations of the shared call node
  zkd     \* the zkctld process and the ZooKeeper server it supervises

vars == <<call, ty, cc, ire, cre, cst, env, obs, SystemTime, procs, zkd>>
stmt == <<env, obs, SystemTime>>

\* no zkctld process
NoDaemon == [pc |-> "none"]

\* the execution contexts that share one call node
Evaluators == {"a", "b"}
Idle == [pc |-> "idle"]

\* the environment a statement starts with: the instant is read once
NewExpressionEnv == [now |-> SystemTime]

None == [none |-> TRUE]

Init ==
  /\ call \in Calls
  /\ ty = None
  /\ cc = None
  /\ ire = None
  /\ cre = None
  /\ cst = None
  /\ SystemTime = 0
  /\ env = NewExpressionEnv
  /\ obs = <<>>
  /\ procs = [i \in Evaluators |-> Idle]
  /\ zkd = NoDaemon

Typeof ==
  /\ ty = None
  /\ ty' = typeof(call)
  /\ UNCHANGED <<call, cc, ire, cre, cst, stmt, procs, zkd>>

Compile ==
  /\ cc = None
  /\ cc' = compile(call)
  /\ UNCHANGED <<call, ty, ire, cre, cst, stmt, procs, zkd>>

\* the interpreter, in the environment of the statement
Eval ==
  /\ ire = None
  /\ ire' = eval(call, env)
  /\ UNCHANGED <<call, ty, cc, cre, cst, stmt, procs, zkd>>

\* the virtual machine on the compiled program
Exec ==
  /\ cc # None
  /\ cre = None
  /\ call.fn \in VmFns
  /\ \E rnd \in BOOLEAN : cre' = exec(call, cc.prog, rnd)
  /\ UNCHANGED <<call, ty, cc, ire, cst, stmt, procs, zkd>>

\* the constant-within-one-statement query
Constant ==
  /\ cst = None
  /\ call.fn \in ConstantFns
  /\ cst' = [v |-> constant(call)]
  /\ UNCHANGED <<call, ty, cc, ire, cre, stmt, procs, zkd>>

Next == Typeof \/ Compile \/ Eval \/ Exec \/ Constant

Spec == Init /\ [][Next]_vars

(***************************************************************************)
(* One statement: it evaluates clock-reading call nodes one after the      *)
(* other in its one environment, while the injected clock advances.        *)
(***************************************************************************)
StmtInit ==
  /\ call \in ClockCalls
  /\ ty = None /\ cc = None /\ ire = None /\ cre = None /\ cst = None
  /\ SystemTime = 0
  /\ env = NewExpressionEnv
  /\ obs = <<>>
  /\ procs = [i \in Evaluators |-> Idle]
  /\ zkd = NoDaemon

\* the statement evaluates the call node it is at
EvalClock ==
  /\ Len(obs) < MaxObs
  /\ obs' = Append(obs, [call |-> call, res |-> eval(call, env)])
  /\ UNCHANGED <<call, ty, cc, ire, cre, cst, env, SystemTime, procs, zkd>>

\* the statement moves on to another of its call nodes
NextCall ==
  /\ \E c \in ClockCalls \ {call} : call' = c
  /\ UNCHANGED <<ty, cc, ire, cre, cst, stmt, procs, zkd>>

\* the injected clock advances
Advance ==
  /\ SystemTime < MaxClock
  /\ SystemTime' = SystemTime + 1
  /\ UNCHANGED <<call, ty, cc, ire, cre, cst, env, obs, procs, zkd>>

StmtNext == EvalClock \/ NextCall \/ Advance
StmtSpec == StmtInit /\ [][StmtNext]_vars

(***************************************************************************)
(* One call node shared by concurrent execution contexts.  Each context    *)
(* runs one operation of the node (eval in an environment of its own,      *)
(* typeof or compile); a method returns its result and leaves the receiver *)
(* as it is.                                                               *)
(***************************************************************************)
Methods == {"eval", "typeof", "compile"}

\* the result a method of the node gives
resultOf(op, node, e) ==
  CASE op = "eval" -> eval(node, e)
    [] op = "typeof" -> typeof(node)
    [] op = "compile" -> compile(node)

\* a node that keeps the result of its first evaluation in a field
withCache(node, r) ==
  [f \in DOMAIN node \cup {"cache"} |-> IF f = "cache" THEN r ELSE node[f]]
method_cached(op, node, e) ==
  IF op # "eval" THEN [node |-> node, res |-> resultOf(op, node, e)]
  ELSE IF "cache" \in DOMAIN node THEN [node |-> node, res |-> node.cache]
  ELSE [node |-> withCache(node, eval(node, e)), res |-> eval(node, e)]

\* one method call on the node: the receiver after the call and the result
method(op, node, e) == [node |-> node, res |-> resultOf(op, node, e)]

SharedCalls == ClockCalls \cup CalendarCalls

ConcInit ==
  /\ call \in SharedCalls
  /\ ty = None /\ cc = None /\ ire = None /\ cre = None /\ cst = None
  /\ SystemTime = 0
  /\ env = NewExpressionEnv
  /\ obs = <<>>
  /\ procs = [i \in Evaluators |-> Idle]
  /\ zkd = NoDaemon

\* a context takes up an operation; its environment caches the instant
Begin(i) ==
  /\ procs[i].pc = "idle"
  /\ \E op \in Methods :
       procs' = [procs EXCEPT ![i] = [pc |-> "running", op |-> op, env |-> NewExpressionEnv]]
  /\ UNCHANGED <<call, ty, cc, ire, cre, cst, stmt, zkd>>

\* the context runs the method on the shared node
Finish(i) ==
  /\ procs[i].pc = "running"
  /\ LET m == method(procs[i].op, call, procs[i].env) IN
     /\ call' = m.node
     /\ procs' = [procs EXCEPT ![i] = [pc |-> "done", op |-> procs[i].op,
                                       env |-> procs[i].env, res |-> m.res]]
  /\ UNCHANGED <<ty, cc, ire, cre, cst, stmt, zkd>>

ConcNext == (\E i \in Evaluators : Begin(i) \/ Finish(i)) \/ Advance
ConcSpec == ConcInit /\ [][ConcNext]_vars

(***************************************************************************)
(* zkctld (go/cmd/zkctld/zkctld.go): main, the ZooKeeper server it starts  *)
(* and the signals sent to the process.                                    *)
(*   pc      where main is: "main" (before zkd.Inited), "starting" (in     *)
(*           zkd.Start or zkd.Init), "notify", "select", "shutdown",       *)
(*           "stopping" (in zkd.Shutdown), "exited", "killed" (ended by a  *)
(*           signal no handler was registered for)                         *)
(*   inited  what zkd.Inited() reports                                     *)
(*   server  "down", "running", "done" (terminated on its own: Done() is   *)
(*           closed), "stopped" (terminated by Shutdown)                   *)
(*   sig     the buffered channel of capacity 1                            *)
(*   calls   the zkd methods main called, each with the state of the       *)
(*           server at the call; errs holds the errors they returned       *)
(*   took    the case the select statement took                            *)
(*   log     the messages written                                          *)
(***************************************************************************)
Signals == {"SIGINT", "SIGTERM"}
NoSignal == "none"
Errs == {"nil", "err"}
NoExit == "running"

MethodCall(m, server) == [m |-> m, server |-> server]

Daemon(inited) ==
  [pc |-> "main", inited |-> inited, server |-> "down", sig |-> NoSignal,
   calls |-> <<>>, errs |-> <<>>, took |-> "none", exit |-> NoExit, log |-> <<>>]

\* exit.Return(code)
exit_Return(d, code) == [d EXCEPT !.pc = "exited", !.exit = code]

\* lines 64-72: Start when already initialized, else Init
StartOrInit ==
  /\ zkd.pc = "main"
  /\ LET m == IF zkd.inited THEN "Start" ELSE "Init" IN
     zkd' = [zkd EXCEPT
               !.pc = "starting",
               !.calls = Append(@, MethodCall(m, zkd.server)),
               !.log = Append(@, IF zkd.inited THEN "already initialized"
                                 ELSE "initializing")]
  /\ UNCHANGED <<call, ty, cc, ire, cre, cst, stmt, procs>>

\* the server process Start or Init launches comes up
ServerStarts ==
  /\ zkd.pc = "starting"
  /\ zkd.server = "down"
  /\ zkd' = [zkd EXCEPT !.server = "running"]
  /\ UNCHANGED <<call, ty, cc, ire, cre, cst, stmt, procs>>

\* lines 66-69 and 72-75: the call returns; a failure ends the process
Started ==
  /\ zkd.pc = "starting"
  /\ \E err \in Errs :
       /\ err = "nil" => zkd.server = "running"
       /\ LET d1 == [zkd EXCEPT !.errs = Append(@, err)] IN
          zkd' = IF err # "nil"
                 THEN exit_Return([d1 EXCEPT !.log = Append(@, "failed")], 255)
                 ELSE [d1 EXCEPT !.pc = "notify"]
  /\ UNCHANGED <<call, ty, cc, ire, cre, cst, stmt, procs>>

\* lines 78-80: the channel is made and registered for SIGINT and SIGTERM
Notify ==
  /\ zkd.pc = "notify"
  /\ zkd' = [zkd EXCEPT !.pc = "select", !.log = Append(@, "waiting")]
  /\ UNCHANGED <<call, ty, cc, ire, cre, cst, stmt, procs>>

\* line 82: the Done channel of the server is closed
SelectDone ==
  /\ zkd.pc = "select"
  /\ zkd.server = "done"
  /\ zkd' = [zkd EXCEPT !.pc = "exited", !.exit = 0, !.took = "done",
                        !.log = Append(@, "server shut down on its own")]
  /\ UNCHANGED <<call, ty, cc, ire, cre, cst, stmt, procs>>

\* line 84: a signal is in the channel
SelectSig ==
  /\ zkd.pc = "select"
  /\ zkd.sig # NoSignal
  /\ zkd' = [zkd EXCEPT !.pc = "shutdown", !.sig = NoSignal, !.took = "sig",
                        !.log = Append(@, "signal received")]
  /\ UNCHANGED <<call, ty, cc, ire, cre, cst, stmt, procs>>

\* line 88: zkd.Shutdown() is called
Shutdown ==
  /\ zkd.pc = "shutdown"
  /\ zkd' = [zkd EXCEPT !.pc = "stopping",
                        !.calls = Append(@, MethodCall("Shutdown", zkd.server))]
  /\ UNCHANGED <<call, ty, cc, ire, cre, cst, stmt, procs>>

\* lines 88-92: Shutdown returns; main returns when it succeeded
ShutdownReturns ==
  /\ zkd.pc = "stopping"
  /\ \E err \in Errs :
       LET d1 == [zkd EXCEPT !.errs = Append(@, err)] IN
       zkd' = IF err # "nil"
              THEN exit_Return([d1 EXCEPT !.log = Append(@, "error during shutdown")], 1)
              ELSE [d1 EXCEPT !.pc = "exited", !.exit = 0,
                              !.server = IF @ = "running" THEN "stopped" ELSE @]
  /\ UNCHANGED <<call, ty, cc, ire, cre, cst, stmt, procs>>

\* the ZooKeeper server terminates on its own
ServerExits ==
  /\ zkd.server = "running"
  /\ zkd' = [zkd EXCEPT !.server = "done"]
  /\ UNCHANGED <<call, ty, cc, ire, cre, cst, stmt, procs>>

\* a signal is sent to the process: it ends a process that has not yet
\* registered the channel, it is buffered when the channel is empty and
\* dropped when it is full
Signal(s) ==
  /\ zkd.pc \notin {"exited", "killed"}
  /\ zkd' = IF zkd.pc \in {"main", "starting", "notify"}
            THEN [zkd EXCEPT !.pc = "killed", !.exit = s]
            ELSE IF zkd.sig = NoSignal THEN [zkd EXCEPT !.sig = s]
            ELSE zkd
  /\ zkd' # zkd
  /\ UNCHANGED <<call, ty, cc, ire, cre, cst, stmt, procs>>

ZkInit ==
  /\ call = Call("CURDATE", <<>>)
  /\ ty = None /\ cc = None /\ ire = None /\ cre = None /\ cst = None
  /\ SystemTime = 0
  /\ env = NewExpressionEnv
  /\ obs = <<>>
  /\ procs = [i \in Evaluators |-> Idle]
  /\ \E inited \in BOOLEAN : zkd = Daemon(inited)

ZkNext ==
  \/ StartOrInit \/ ServerStarts \/ Started \/ Notify
  \/ SelectDone \/ SelectSig \/ Shutdown \/ ShutdownReturns
  \/ ServerExits \/ (\E s \in Signals : Signal(s))
ZkSpec == ZkInit /\ [][ZkNext]_vars

(***************************************************************************)
(* Properties.                                                             *)
(***************************************************************************)
Typed == ty # None
Compiled_ == cc # None
Evaluated == ire # None
Executed == cre # None

NArgs == Len(call.args)
ArgOut(i) == call.args[i].out
IsValue(out) == out # Null /\ ~IsErr(out)

\* C1: for every builtin and every static argument type, the descriptor
\* compile returns has the type tag and the flag set typeof reports for the
\* same call node.
C1_CompileReportsTypeof ==
  (Typed /\ Compiled_) => (cc.ct.Type = ty.Type /\ cc.ct.Flag = ty.Flag)

\* C2: for one-argument FROM_UNIXTIME the interpreted result and the
\* compiled-and-executed result are the same value (same instant, same
\* fractional-second precision), whatever the static type of the argument.
C2_FromUnixtimePathsAgree ==
  (Evaluated /\ Executed /\ call.fn = "FROM_UNIXTIME" /\ NArgs = 1)
    => (cre.v = ire.v /\ cre.err = ire.err)

\* C3: with exactly one argument null and every other argument a non-null
\* value, eval returns null and no error.
C3_NullPropagates ==
  (Evaluated
   /\ \E i \in 1..NArgs :
        /\ ArgOut(i) = Null
        /\ \A j \in (1..NArgs) \ {i} : IsValue(ArgOut(j)))
    => (ire.v = Null /\ ire.err = "nil")

\* What C4 says of one MAKEDATE result r (interpreted or executed).
MakedateYearDayFirst(r) ==
  /\ r.ord[1] = 2
  /\ IsErr(ArgOut(2)) => (r.ord = <<2>> /\ r.err = ArgErr(2) /\ r.v = Null)
  /\ ArgOut(2) = Null => (r.ord = <<2>> /\ r.err = "nil" /\ r.v = Null)
  /\ (IsValue(ArgOut(2)) /\ ArgOut(1) = Null)
       => (r.ord = <<2, 1>> /\ r.err = "nil" /\ r.v = Null)

\* C4: MAKEDATE(year, dayOfYear) evaluates dayOfYear before year, in the
\* interpreter and in the emitted bytecode: an error or a null of dayOfYear
\* ends the call before year is evaluated, and a null year is found only
\* after dayOfYear was evaluated.
C4_MakedateYearDayFirst ==
  /\ (Evaluated /\ call.fn = "MAKEDATE") => MakedateYearDayFirst(ire)
  /\ (Executed /\ call.fn = "MAKEDATE") => MakedateYearDayFirst(cre)

C4_Witness ==
  /\ Evaluated /\ Executed /\ call.fn = "MAKEDATE"
  /\ ArgOut(1) = Null /\ IsValue(ArgOut(2))
  /\ ire.ord = <<2, 1>> /\ cre.ord = <<2, 1>>

\* C5: when the evaluation of an argument returns an error, eval returns
\* that error with a nil value and evaluates no later argument.
C5_ErrorStopsEvaluation ==
  Evaluated =>
    \A p \in 1..Len(ire.ord) :
      IsErr(ArgOut(ire.ord[p])) =>
        (p = Len(ire.ord) /\ ire.err = ArgErr(ire.ord[p]) /\ ire.v = Null)

C5_Witness ==
  /\ Evaluated /\ call.fn = "MAKETIME"
  /\ IsErr(ArgOut(1)) /\ IsErr(ArgOut(2))
  /\ ire = R(Null, ArgErr(1), <<1>>)

\* The numeric value of a FROM_UNIXTIME argument against the two ends.
IsNumericKind(v) == v.k \in {"int", "uint", "float", "dec"} \/ (v.k = "bytes" /\ v.lit = "none")
BelowZero(v) ==
  CASE v.k = "int" -> NumLt(v.n, Z(0))
    [] v.k = "uint" -> FALSE
    [] OTHER -> v.neg /\ (v.ip # Z(0) \/ v.fr # 0)
AtLeastMaxUnixtime(v) ==
  CASE v.k \in {"int", "uint"} -> NumGe(v.n, maxUnixtime)
    [] OTHER -> (~v.neg) /\ NumGe(v.ip, maxUnixtime)

\* C6: FROM_UNIXTIME is null for every numeric argument below 0 or at least
\* 32536771200, of whatever kind, fractions between -1 and 0 included; it is
\* a datetime at 0.
C6_FromUnixtimeRange ==
  (Evaluated /\ call.fn = "FROM_UNIXTIME" /\ NArgs = 1 /\ IsValue(ArgOut(1))
   /\ IsNumericKind(ArgOut(1)))
    => /\ (BelowZero(ArgOut(1)) \/ AtLeastMaxUnixtime(ArgOut(1))) => ire.v = Null
       /\ ArgOut(1) = VInt(Z(0)) => ire.v # Null

\* C7: the precision of a one-argument FROM_UNIXTIME result follows from the
\* kind of the argument alone: 0 for an integer, 6 for a float or a general
\* string, the declared scale for a decimal.
C7_FromUnixtimePrecision ==
  (Evaluated /\ call.fn = "FROM_UNIXTIME" /\ NArgs = 1 /\ ire.v # Null) =>
    LET a == ArgOut(1) IN
    /\ a.k \in {"int", "uint"} => ire.v.prec = 0
    /\ (a.k = "float" \/ (a.k = "bytes" /\ a.lit = "none")) => ire.v.prec = 6
    /\ a.k = "dec" => ire.v.prec = a.len

C7_Witness ==
  /\ Evaluated /\ call.fn = "FROM_UNIXTIME" /\ NArgs = 1
  /\ ArgOut(1) = VFloat(FALSE, Z(1), 0)
  /\ ire.v # Null /\ ire.v.prec = 6

\* The hour, minute and second operands of a MAKETIME call as numbers.
AllValues == \A i \in 1..NArgs : IsValue(ArgOut(i))
HourNum == LET h == ArgOut(1) IN IF h.k = "bytes" THEN h.u ELSE h.n
MinuteOutOfRange == NumLt(ArgOut(2).n, Z(0)) \/ NumGt(ArgOut(2).n, Z(59))
SecondOutOfRange ==
  LET x == evalToNumeric(ArgOut(3)) IN
  IF x.k \in {"int", "uint"} THEN NumLt(x.n, Z(0)) \/ NumGe(x.n, Z(60))
  ELSE (x.neg /\ (x.ip # Z(0) \/ x.fr # 0)) \/ ((~x.neg) /\ NumGe(x.ip, Z(60)))
HourOutOfRange == NumGt(HourNum, Z(838)) \/ NumLt(HourNum, Z(-838))

\* C8: MAKETIME is null whenever the minute is outside [0,59] or the second
\* outside [0,60), for an integer, unsigned, decimal or float second, also
\* when the hour is beyond the +-838 clamp.
C8_MaketimeValidates ==
  (Evaluated /\ call.fn = "MAKETIME" /\ AllValues /\ (MinuteOutOfRange \/ SecondOutOfRange))
    => (ire.v = Null /\ ire.err = "nil")

C8_Witness ==
  /\ Evaluated /\ call.fn = "MAKETIME" /\ AllValues
  /\ HourOutOfRange /\ MinuteOutOfRange /\ ~SecondOutOfRange
  /\ ire.v = Null

\* hours, minutes, seconds and sign of a time
Hms(v) == <<v.neg, v.h, v.m, v.s, v.fr>>

\* C9: with a valid minute and second, an hour above 838 gives exactly
\* +838:59:59 and an hour below -838 exactly -838:59:59, whatever the minute
\* and the second; an hour within [-838, 838] is kept.
C9_MaketimeClamps ==
  (Evaluated /\ call.fn = "MAKETIME" /\ AllValues
   /\ ~MinuteOutOfRange /\ ~SecondOutOfRange)
    => /\ ire.v # Null
       /\ NumGt(HourNum, Z(838)) => Hms(ire.v) = <<FALSE, 838, 59, 59, 0>>
       /\ NumLt(HourNum, Z(-838)) => Hms(ire.v) = <<TRUE, 838, 59, 59, 0>>
       /\ ~HourOutOfRange =>
            /\ ire.v.h = (IF HourNum.o < 0 THEN -HourNum.o ELSE HourNum.o)
            /\ ire.v.m = ArgOut(2).n.o

C9_Witness ==
  /\ Evaluated /\ call.fn = "MAKETIME"
  /\ ArgOut(1) = VInt(Z(900)) /\ ArgOut(2) = VInt(Z(30)) /\ ArgOut(3) = VInt(Z(30))
  /\ Hms(ire.v) = <<FALSE, 838, 59, 59, 0>>

\* C10: a non-null MAKETIME result is negative exactly when the hour operand
\* is below 0, for an integer, decimal or float second.
C10_MaketimeSign ==
  (Evaluated /\ call.fn = "MAKETIME" /\ ire.v # Null)
    => (ire.v.neg <=> NumLt(HourNum, Z(0)))

C10_Witness ==
  /\ Evaluated /\ call.fn = "MAKETIME"
  /\ ArgOut(1) = VInt(Z(-900)) /\ ArgOut(3).k = "float"
  /\ ire.v # Null /\ ire.v.neg

\* the same call without its mode operand
NoMode(c) == [c EXCEPT !.args = <<c.args[1]>>]
ValidDate(v) == IsValue(v) /\ v.cv = "ok"

\* C11: WEEK(d) and YEARWEEK(d) give what WEEK(d, 0) and YEARWEEK(d, 0) give
\* for every valid non-zero date, interpreted and compiled; WEEKOFYEAR(d)
\* gives the ISO week number of d.
C11_WeekDefaultMode ==
  /\ (Evaluated /\ call.fn \in {"WEEK", "YEARWEEK"} /\ NArgs = 2
      /\ ValidDate(ArgOut(1)) /\ ArgOut(2) = VInt(Z(0)))
       => (ire.v # Null /\ ire.v = eval(NoMode(call), env).v)
  /\ (Executed /\ call.fn \in {"WEEK", "YEARWEEK"} /\ NArgs = 2
      /\ ValidDate(ArgOut(1)) /\ ArgOut(2) = VInt(Z(0)))
       => (cre.v # Null
           /\ \A rnd \in BOOLEAN :
                cre.v = exec(NoMode(call), compile(NoMode(call)).prog, rnd).v)
  /\ (Evaluated /\ call.fn = "WEEKOFYEAR" /\ ValidDate(ArgOut(1)))
       => /\ ire.v.k = "int" /\ ire.v.n.o \in 1..53
          /\ ArgOut(1) = VTemporal("Date", Z(20240101), 0, 0, "ok") => ire.v.n = Z(1)
          /\ ArgOut(1) = VTemporal("Date", Z(20210103), 0, 0, "ok") => ire.v.n = Z(53)
          /\ ArgOut(1) = VTemporal("Date", Z(20201231), 0, 0, "ok") => ire.v.n = Z(53)
          /\ ArgOut(1) = VTemporal("Date", Z(20210104), 0, 0, "ok") => ire.v.n = Z(1)

C11_Witness ==
  /\ Evaluated /\ Executed /\ call.fn = "YEARWEEK" /\ NArgs = 2
  /\ ArgOut(1) = VTemporal("Date", Z(20210103), 0, 0, "ok") /\ ArgOut(2) = VInt(Z(0))
  /\ ire.v = weekOf("YearWeek", evalToDate(ArgOut(1)), Z(0))
  /\ "Fn_YEARWEEK" \in { cre.ops[i] : i \in 1..Len(cre.ops) }
  /\ cre.v = ire.v

\* the two weekday numbers of the date operand of the call
DayOfWeekOf(c) == eval(Call("DAYOFWEEK", c.args), env).v
WeekDayOf(c) == eval(Call("WEEKDAY", c.args), env).v
Monday == VTemporal("Date", Z(20240101), 0, 0, "ok")
Sunday == VTemporal("Date", Z(20240107), 0, 0, "ok")

\* C12: for every valid non-zero date DAYOFWEEK is in 1..7 with Sunday 1 and
\* WEEKDAY in 0..6 with Monday 0, DAYOFWEEK(d) = ((WEEKDAY(d) + 1) mod 7) + 1,
\* and a Monday has WEEKDAY 0 and DAYOFWEEK 2.
C12_WeekdayEncodings ==
  (Evaluated /\ call.fn \in {"DAYOFWEEK", "WEEKDAY"} /\ ValidDate(ArgOut(1))) =>
    LET dow == DayOfWeekOf(call)
        wd == WeekDayOf(call)
    IN /\ ire.v = (IF call.fn = "DAYOFWEEK" THEN dow ELSE wd)
       /\ dow.k = "int" /\ dow.n.o \in 1..7
       /\ wd.k = "int" /\ wd.n.o \in 0..6
       /\ dow.n.o = ((wd.n.o + 1) % 7) + 1
       /\ ArgOut(1) = Monday => (wd.n.o = 0 /\ dow.n.o = 2)
       /\ ArgOut(1) = Sunday => (wd.n.o = 6 /\ dow.n.o = 1)
       /\ wd.n.o = 0 <=> Weekday(CivilDate(evalToDate(ArgOut(1)))) = 1

C12_Witness ==
  /\ Evaluated /\ call.fn = "WEEKDAY" /\ ArgOut(1) = Monday
  /\ ire.v = VInt(Z(0)) /\ DayOfWeekOf(call) = VInt(Z(2))

\* the units of the calls by the parts they carry
TimeUnits == {"HOUR", "DAY_HOUR"}
DateUnits == {"DAY", "DAY_HOUR"}
OperandType == call.args[1].t

\* the result type C13 gives an operand type and a unit
DateMathType(tt, unit) ==
  CASE tt = "Date" -> IF unit \in TimeUnits THEN "Datetime" ELSE "Date"
    [] tt = "Time" -> IF unit \in DateUnits THEN "Datetime" ELSE "Time"
    [] tt \in {"Datetime", "Timestamp"} -> "Datetime"
    [] OTHER -> "textual"

\* C13: the inferred type of the add/subtract-interval call is Date for a
\* Date with a unit without time parts, Time for a Time with a unit without
\* date parts, Datetime for a Datetime or Timestamp or a Date or Time whose
\* unit mixes in the other parts, and textual for any other operand; it does
\* not depend on the subtraction flag.
C13_DateMathType ==
  /\ (Typed /\ call.fn = "DATE_ADD") =>
       /\ IF DateMathType(OperandType, call.unit) = "textual" THEN isTextual(ty)
          ELSE ty.Type = DateMathType(OperandType, call.unit)
       /\ ty = typeof([call EXCEPT !.sub = ~call.sub])
  /\ (Compiled_ /\ call.fn = "DATE_ADD") =>
       /\ IF DateMathType(OperandType, call.unit) = "textual" THEN isTextual(cc.ct)
          ELSE cc.ct.Type = DateMathType(OperandType, call.unit)
       /\ cc.ct = compile([call EXCEPT !.sub = ~call.sub]).ct

C13_Witness ==
  /\ Typed /\ Compiled_ /\ call.fn = "DATE_ADD"
  /\ OperandType = "Date" /\ call.unit = "HOUR" /\ call.sub
  /\ ty.Type = "Datetime" /\ cc.ct.Type = "Datetime"
  /\ typeof([call EXCEPT !.unit = "DAY"]).Type = "Date"

MakedateOf(y, yd) ==
  call.fn = "MAKEDATE" /\ ArgOut(1) = VInt(Z(y)) /\ ArgOut(2) = VInt(Z(yd))
Ymd(v) == <<v.y, v.m, v.d>>

\* what C14 says of a MAKEDATE result v for a year y and a day within it
MakedateCentury(v, y) ==
  /\ v # Null
  /\ y \in 0..69 => v.y = 2000 + y
  /\ y \in 70..99 => v.y = 1900 + y
  /\ y \in 100..9999 => v.y = y

\* C14: in MAKEDATE a year in 0..69 is read as 2000..2069, a year in 70..99
\* as 1900..1999 and a year of 100 or more is used as it is; (70, 1) is
\* 1970-01-01, (69, 1) is 2069-01-01 and (2024, 60) is 2024-02-29.
C14_MakedatePivot ==
  /\ (Evaluated /\ call.fn = "MAKEDATE" /\ AllValues
      /\ ArgOut(1).k = "int" /\ ArgOut(1).n.b = LZero /\ ArgOut(1).n.o \in 0..9999
      /\ ArgOut(2).k = "int" /\ ArgOut(2).n.b = LZero /\ ArgOut(2).n.o \in 1..365)
       => /\ MakedateCentury(ire.v, ArgOut(1).n.o)
          /\ MakedateOf(70, 1) => Ymd(ire.v) = <<1970, 1, 1>>
          /\ MakedateOf(69, 1) => Ymd(ire.v) = <<2069, 1, 1>>
          /\ MakedateOf(2024, 60) => Ymd(ire.v) = <<2024, 2, 29>>
          /\ Executed => cre.v = ire.v

C14_Witness ==
  /\ Evaluated /\ Executed /\ MakedateOf(69, 1)
  /\ Ymd(ire.v) = <<2069, 1, 1>> /\ cre.v = ire.v

Constanted == cst # None

\* C15: every clock-reading builtin reports constant() = false whatever its
\* fields, and the one-argument UNIX_TIMESTAMP reports what its argument
\* reports.
C15_ClockNeverConstant ==
  Constanted =>
    /\ NArgs = 0 => cst.v = FALSE
    /\ (call.fn = "UNIX_TIMESTAMP" /\ NArgs = 1) => cst.v = call.args[1].const

C15_Witness ==
  /\ Constanted /\ call.fn = "UNIX_TIMESTAMP" /\ NArgs = 1
  /\ call.args[1].const /\ cst.v = TRUE

\* the instant an evaluation of the statement observed
Instant(o) == o.res.v.at

\* C16: any two clock-reading evaluations of one statement, in one
\* environment, observe one instant, even if the injected clock advanced
\* between them.
C16_StatementTime ==
  \A i, j \in 1..Len(obs) : Instant(obs[i]) = Instant(obs[j])

\* why a CONVERT_TZ call over three values cannot convert
BadZone(v) == ~(v.k = "bytes" /\ v.lit = "none" /\ v.s = "zone")
ConvertTzFails ==
  BadZone(ArgOut(2)) \/ BadZone(ArgOut(3)) \/ ArgOut(1).cv \in {"fail", "zero", "noparse"}

\* C17: CONVERT_TZ over three non-null arguments never returns an error: it
\* is null when a zone does not parse, when dt does not convert to a
\* datetime or is a zero datetime, or when the conversion fails, and
\* otherwise a datetime with the precision of the converted input.
C17_ConvertTzNeverFails ==
  (Evaluated /\ call.fn = "CONVERT_TZ" /\ AllValues) =>
    /\ ire.err = "nil"
    /\ ConvertTzFails => ire.v = Null
    /\ ~ConvertTzFails =>
         /\ ire.v # Null /\ ire.v.k = "temporal" /\ ire.v.t = "Datetime"
         /\ ire.v.prec = evalPrec(evalToDateTime(ArgOut(1)))
         /\ ArgOut(1).k = "temporal" => ire.v.prec = ArgOut(1).prec

C17_Witness ==
  /\ Evaluated /\ call.fn = "CONVERT_TZ" /\ AllValues
  /\ ArgOut(1).cv = "ok" /\ BadZone(ArgOut(2)) /\ ~BadZone(ArgOut(3))
  /\ ire = R(Null, "nil", <<1, 2, 3>>)

NullCheckOps == {"NullCheck1", "NullCheck1r", "NullCheck3"}
OpsAt(prog, ops) == { p \in 1..Len(prog) : prog[p].op \in ops }
ArgAt(prog, i) == { p \in 1..Len(prog) : prog[p].op = "arg" /\ prog[p].i = i }
SomeArgNullable == \E i \in 1..NArgs : flagNullable \in call.args[i].fl

\* what C18 says of the program compile emitted for a call with a nullable
\* argument
NullChecksShareTerminal(prog) ==
  /\ \A i \in 1..NArgs :
       flagNullable \in call.args[i].fl =>
         \E a \in ArgAt(prog, i), c \in OpsAt(prog, NullCheckOps) : a < c
  /\ OpsAt(prog, {"dest"}) = {Len(prog)}
  /\ \A c \in OpsAt(prog, NullCheckOps) : prog[c].j \in prog[Len(prog)].js

\* C18: for every builtin with arguments, the add/subtract-interval call
\* included, compile emits each argument's sub-program followed by a null
\* check, and one jumpDestination after the function's opcode resolves all
\* the null checks of the call, so that a runtime null skips the opcode.
C18_NullChecksShareTerminal ==
  /\ (Compiled_ /\ NArgs > 0 /\ SomeArgNullable) => NullChecksShareTerminal(cc.prog)
  /\ (Executed /\ cre.err = "nil" /\ \E i \in 1..NArgs : ArgOut(i) = Null)
       => cre.v = Null

DateExtractors ==
  {"DAYOFMONTH", "DAYOFWEEK", "DAYOFYEAR", "MONTH", "MONTHNAME", "QUARTER", "YEAR",
   "WEEKDAY", "WEEKOFYEAR", "WEEK", "YEARWEEK"}
TimeExtractors == {"HOUR", "MINUTE", "SECOND", "MICROSECOND"}
ConvertOps ==
  {"Convert_xD", "Convert_xD_nz", "Convert_xT", "Convert_xDT_nz", "Convert_xi",
   "Convert_xu", "Convert_ui", "Convert_Ti", "Convert_xf", "Convert_xb"}
\* no coercion of the operand at stack offset off
NoConvertAt(prog, off) ==
  \A p \in OpsAt(prog, ConvertOps) : prog[p].off # off
ArgType(i) == call.args[i].t

\* the operands whose static type is already what the opcode reads
ExtractorsNeedNoCoercion ==
  /\ (call.fn \in DateExtractors /\ ArgType(1) \in {"Date", "Datetime"})
       => OpsAt(cc.prog, {"Convert_xD", "Convert_xD_nz"}) = {}
  /\ (call.fn \in TimeExtractors /\ ArgType(1) \in {"Date", "Datetime", "Time"})
       => OpsAt(cc.prog, {"Convert_xT"}) = {}
ConstructorsNeedNoCoercion ==
  /\ (call.fn = "MAKEDATE" /\ ArgType(1) = "Int64") => NoConvertAt(cc.prog, 1)
  /\ (call.fn = "MAKEDATE" /\ ArgType(2) = "Int64") => NoConvertAt(cc.prog, 2)
  /\ (call.fn = "MAKETIME" /\ ArgType(1) = "Int64") => NoConvertAt(cc.prog, 3)
  /\ (call.fn = "MAKETIME" /\ ArgType(2) = "Int64") => NoConvertAt(cc.prog, 2)
ModeNeedsNoCoercion ==
  (call.fn \in {"WEEK", "YEARWEEK"} /\ NArgs = 2 /\ ArgType(2) = "Int64")
    => OpsAt(cc.prog, {"Convert_xi"}) = {}

\* C19: compile emits no coercion for an operand whose static type is the
\* one the opcode reads: a Date or Datetime of a date extractor, a Date,
\* Datetime or Time of a time extractor, an Int64 year, day of year, hour or
\* minute, an Int64 mode of WEEK and YEARWEEK.
C19_NoNeedlessCoercion ==
  Compiled_ =>
    (ExtractorsNeedNoCoercion /\ ConstructorsNeedNoCoercion /\ ModeNeedsNoCoercion)

\* the zero UNIX_TIMESTAMP gives a value that is not read as a datetime
UnixZeroOf(x) ==
  CASE x.k \in {"int", "uint"} -> VInt(Z(0))
    [] x.k = "dec" -> VDec(FALSE, Z(0), 0, x.len)
    [] x.k = "bytes" /\ x.lit = "hex" -> VInt(Z(0))
    [] OTHER -> VDec(FALSE, Z(0), 0, 6)

\* C20: a call typeof reports without the nullable flag never evaluates to
\* null: the clock-reading calls always give a value, and UNIX_TIMESTAMP(x)
\* gives a number for every non-null x (a zero of the kind of x when x is
\* not read as a datetime), so it is null only when x is.
C20_NonNullableNeverNull ==
  /\ (Typed /\ Evaluated /\ ~nullable(ty) /\ ire.err = "nil") => ire.v # Null
  /\ (Evaluated /\ NArgs = 0) => (ire.err = "nil" /\ ire.v # Null)
  /\ (Evaluated /\ call.fn = "UNIX_TIMESTAMP" /\ NArgs = 1 /\ ~IsErr(ArgOut(1))) =>
       /\ ire.err = "nil"
       /\ ire.v = Null <=> ArgOut(1) = Null
       /\ (ArgOut(1) # Null /\ ArgOut(1).k # "temporal" /\ ArgOut(1).cv \in {"fail", "zero"})
            => ire.v = UnixZeroOf(ArgOut(1))

C20_Witness ==
  /\ Typed /\ Evaluated /\ call.fn = "UNIX_TIMESTAMP" /\ NArgs = 1
  /\ ~nullable(ty) /\ ArgOut(1) = VInt(Z(1))
  /\ ire.v = VInt(Z(0))

UnaryExtractors ==
  {"DATE", "DAYOFMONTH", "DAYOFWEEK", "DAYOFYEAR", "MONTH", "MONTHNAME", "QUARTER",
   "YEAR", "HOUR", "MINUTE", "SECOND", "MICROSECOND", "TIME", "WEEKDAY", "WEEKOFYEAR"}
Unconvertible(v) == IsValue(v) /\ v.cv = "fail"
UnparsableInterval(v) == IsValue(v) /\ v.k = "bytes" /\ v.lit = "none" /\ v.s = "baditv"

\* C21: for the one-argument extractors and casts and for the
\* add/subtract-interval call, a non-null argument that does not convert to
\* the temporal value (or an interval that does not parse) gives null with a
\* nil error, never an error.
C21_NullOnFailure ==
  /\ (Evaluated /\ call.fn \in UnaryExtractors /\ Unconvertible(ArgOut(1)))
       => ire = R(Null, "nil", <<1>>)
  /\ (Evaluated /\ call.fn = "DATE_ADD" /\ AllValues
      /\ (UnparsableInterval(ArgOut(2))
          \/ (ArgOut(1).k # "temporal" /\ Unconvertible(ArgOut(1)))))
       => ire = R(Null, "nil", <<1, 2>>)

C21_Witness ==
  /\ Evaluated /\ call.fn = "HOUR" /\ ArgOut(1) = VStr(FALSE, Z(1), 0, "fail")
  /\ ire = R(Null, "nil", <<1>>)

Finishing(i) == procs[i].pc = "running" /\ procs'[i].pc = "done"

AsUint(c, i) ==
  [c EXCEPT !.args[i].out = VUint(c.args[i].out.u)]
IsLiteral(v) == IsValue(v) /\ isHexOrBitLiteral(v)
IsGeneralString(v) == IsValue(v) /\ v.k = "bytes" /\ v.lit = "none"

\* C23: FROM_UNIXTIME, the hour and the second of MAKETIME and
\* UNIX_TIMESTAMP read a hex literal and a bit literal alike, as the
\* unsigned integer it holds (precision 0, an integer result); only a
\* general string is read as a float (precision 6).
C23_HexAndBitAlike ==
  /\ (Evaluated /\ call.fn = "FROM_UNIXTIME" /\ NArgs = 1) =>
       /\ IsLiteral(ArgOut(1)) => ire = builtinFromUnixtime_eval(AsUint(call, 1))
       /\ (IsLiteral(ArgOut(1)) /\ ire.v # Null) => ire.v.prec = 0
       /\ (IsGeneralString(ArgOut(1)) /\ ire.v # Null) => ire.v.prec = 6
  /\ (Evaluated /\ call.fn = "MAKETIME") =>
       /\ IsLiteral(ArgOut(1)) => ire = builtinMaketime_eval(AsUint(call, 1))
       /\ IsLiteral(ArgOut(3)) => ire = builtinMaketime_eval(AsUint(call, 3))
  /\ (Evaluated /\ call.fn = "UNIX_TIMESTAMP" /\ NArgs = 1) =>
       /\ (IsLiteral(ArgOut(1)) /\ ArgOut(1).cv = "fail") => ire.v = VInt(Z(0))
       /\ (IsGeneralString(ArgOut(1)) /\ ArgOut(1).cv = "fail")
            => ire.v = VDec(FALSE, Z(0), 0, 6)

UnixRead(v) == IsValue(v) /\ (v.k = "temporal" \/ v.cv = "ok")
ReadPrec(v) ==
  CASE v.k = "temporal" -> v.prec
    [] v.k = "dec" -> v.len
    [] v.k \in {"float", "bytes"} -> IF v.fr = 0 THEN 0 ELSE 6
    [] OTHER -> 0

\* C24: UNIX_TIMESTAMP with an argument carries the ambiguous-type flag in
\* typeof and in compile, UNIX_TIMESTAMP without one never does; evaluated,
\* the one-argument call gives a signed integer when the datetime read from
\* the argument has precision 0, else a decimal of that scale.
C24_UnixTimestampAmbiguous ==
  /\ (Typed /\ call.fn = "UNIX_TIMESTAMP") =>
       (flagAmbiguousType \in ty.Flag <=> NArgs = 1)
  /\ (Compiled_ /\ call.fn = "UNIX_TIMESTAMP") =>
       (flagAmbiguousType \in cc.ct.Flag <=> NArgs = 1)
  /\ (Evaluated /\ call.fn = "UNIX_TIMESTAMP" /\ NArgs = 1 /\ UnixRead(ArgOut(1))) =>
       /\ ire.err = "nil"
       /\ ReadPrec(ArgOut(1)) = 0 => ire.v.k = "int"
       /\ ReadPrec(ArgOut(1)) > 0 => (ire.v.k = "dec" /\ ire.v.len = ReadPrec(ArgOut(1)))

C24_Witness ==
  /\ Typed /\ Compiled_ /\ Evaluated /\ call.fn = "UNIX_TIMESTAMP" /\ NArgs = 1
  /\ call.args[1].const
  /\ ArgOut(1) = VTemporal("Time", Z(1), HalfSec, 1, "ok")
  /\ ire.v.k = "dec" /\ ire.v.len = 1

C24_WitnessInt ==
  /\ Typed /\ Compiled_ /\ Evaluated /\ call.fn = "UNIX_TIMESTAMP" /\ NArgs = 1
  /\ ArgOut(1) = VTemporal("Datetime", Z(20200101), 0, 0, "ok")
  /\ ire.v.k = "int"

TsOutOfRange ==
  IsValue(ArgOut(1)) /\ fromUnixtimeOutOfRange(fromUnixtimeParts(ArgOut(1)).sec)
Ran(r, op) == \E k \in 1..Len(r.ops) : r.ops[k] = op
Evaluates(r, i) == \E k \in 1..Len(r.ord) : r.ord[k] = i

\* C25: FROM_UNIXTIME(ts, format) evaluates format only after ts was
\* evaluated, found non-null and found in range: with ts out of range the
\* result is null, format is not evaluated and no error surfaces, and the
\* compiled program does the same, running neither the sub-program of format
\* nor the formatting opcode.
C25_FormatAfterRangeCheck ==
  /\ (Evaluated /\ call.fn = "FROM_UNIXTIME" /\ NArgs = 2) =>
       /\ Evaluates(ire, 2) => (IsValue(ArgOut(1)) /\ ~TsOutOfRange /\ ire.ord = <<1, 2>>)
       /\ TsOutOfRange => ire = R(Null, "nil", <<1>>)
  /\ (Executed /\ call.fn = "FROM_UNIXTIME" /\ NArgs = 2 /\ TsOutOfRange) =>
       /\ cre.v = Null /\ cre.err = "nil"
       /\ ~Evaluates(cre, 2)
       /\ ~Ran(cre, "Fn_DATE_FORMAT")

\* the interpreter's half of C25
C25_InterpreterOnly ==
  (Evaluated /\ call.fn = "FROM_UNIXTIME" /\ NArgs = 2) =>
    /\ Evaluates(ire, 2) => (IsValue(ArgOut(1)) /\ ~TsOutOfRange /\ ire.ord = <<1, 2>>)
    /\ TsOutOfRange => ire = R(Null, "nil", <<1>>)

\* the days before January 1 of year y, counted from January 1 of year 1
DaysBeforeYear(y) ==
  365 * (y - 1) + ((y - 1) \div 4) - ((y - 1) \div 100) + ((y - 1) \div 400)
\* the year MAKEDATE reads y as
FullYear(y) == IF y \in 0..69 THEN 2000 + y ELSE IF y \in 70..99 THEN 1900 + y ELSE y
\* day yd of year y lies beyond December 31, 9999
PastYear9999(y, yd) == yd > DaysBeforeYear(10000) - DaysBeforeYear(FullYear(y))

MakedateRejects(y, yd) ==
  \/ NumLt(y, Z(0)) \/ NumGt(y, Z(9999))
  \/ NumLt(yd, Z(1)) \/ NumGt(yd, MaxInt32)
  \/ PastYear9999(y.o, PlainInt(yd))

\* C26: MAKEDATE(year, dayOfYear) is null, with no error, when year < 0,
\* year > 9999, dayOfYear < 1, dayOfYear > 2147483647 or the date falls in a
\* year after 9999; for every other input it is a date of a year in
\* 100..9999, which is never the zero time that stands for failure.
C26_MakedateNullOrDate ==
  (Evaluated /\ call.fn = "MAKEDATE" /\ AllValues) =>
    LET y == evalToInt64(ArgOut(1))
        yd == evalToInt64(ArgOut(2))
    IN /\ ire.err = "nil"
       /\ MakedateRejects(y, yd) => ire.v = Null
       /\ ~MakedateRejects(y, yd) =>
            /\ ire.v # Null /\ ire.v.t = "Date"
            /\ ire.v.y \in 100..9999
            /\ ~IsZeroTime([y |-> ire.v.y, m |-> ire.v.m, d |-> ire.v.d])
            /\ ire.v.y = normYearDay(FullYear(y.o), PlainInt(yd)).y

C26_Witness ==
  /\ Evaluated /\ MakedateOf(9999, 366) /\ ire = R(Null, "nil", <<2, 1>>)

C26_WitnessDate ==
  /\ Evaluated /\ MakedateOf(9998, 366) /\ Ymd(ire.v) = <<9999, 1, 1>>

UnsignedHour == ArgOut(1).k = "uint" \/ isHexOrBitLiteral(ArgOut(1))
\* in the program, Clamp_u on the hour comes before its Convert_xi
ClampBeforeConvert(prog) ==
  \E i, j \in 1..Len(prog) :
    /\ i < j
    /\ prog[i].op = "Clamp_u" /\ prog[i].off = 3
    /\ prog[j].op = "Convert_xi" /\ prog[j].off = 3

C27_WitnessUnsigned ==
  /\ Evaluated /\ Executed /\ call.fn = "MAKETIME"
  /\ ArgOut(1) = VUint(N(LMaxInt64, 1))
  /\ ArgOut(2) = VInt(Z(30)) /\ ArgOut(3) = VInt(Z(30))
  /\ Hms(ire.v) = <<FALSE, 838, 59, 59, 0>> /\ cre.v = ire.v

CallsOf(ms) == { k \in 1..Len(zkd.calls) : zkd.calls[k].m \in ms }
Returned(k) == k <= Len(zkd.errs)
PastStart == zkd.pc \in {"notify", "select", "shutdown", "stopping", "exited"}
Waited == \E k \in 1..Len(zkd.log) : zkd.log[k] = "waiting"

\* what C28 says of the calls zkctld makes and of its exit code
ZkStartsOnce ==
  /\ Cardinality(CallsOf({"Start", "Init"})) <= 1
  /\ PastStart => Cardinality(CallsOf({"Start", "Init"})) = 1
  /\ CallsOf({"Start"}) # {} => zkd.inited
  /\ CallsOf({"Init"}) # {} => ~zkd.inited
ZkFailedStartExits ==
  (Returned(1) /\ zkd.errs[1] # "nil") =>
    (zkd.pc = "exited" /\ zkd.exit = 255 /\ ~Waited /\ CallsOf({"Shutdown"}) = {})
ZkShutdownOnSignalOnly ==
  /\ CallsOf({"Shutdown"}) # {} => zkd.took = "sig"
  /\ zkd.took = "done" => (zkd.pc = "exited" /\ zkd.exit = 0)
  /\ zkd.pc = "select" => zkd.exit = NoExit
  /\ (Returned(2) /\ zkd.errs[2] # "nil") => (zkd.pc = "exited" /\ zkd.exit = 1)
ZkNoShutdownAfterDone ==
  \A k \in CallsOf({"Shutdown"}) : zkd.calls[k].server # "done"

C28_ExceptShutdownAfterDone ==
  zkd # NoDaemon => (ZkStartsOnce /\ ZkFailedStartExits /\ ZkShutdownOnSignalOnly)

====
